---- MODULE Spec2Model ----
(***************************************************************************)
(* Model of the bridge-transport BLE session                               *)
(* (src/src/script/microbit-interfacing/CapacitorMicrobitBluetooth.ts).    *)
(*                                                                         *)
(* JavaScript runs one callback turn at a time, so every action below is   *)
(* one turn: the synchronous code from one suspension point (an await on a *)
(* plugin call or on a timer) to the next.  A call of an async method is a *)
(* frame with a position pc; the plugin's answers (resolve / reject) are   *)
(* the inputs, drawn with \E.  Awaits on pure delays are folded into the   *)
(* neighbouring plugin await when no field is written in between.          *)
(***************************************************************************)
EXTENDS Integers, Sequences, FiniteSets, TLC

\* ------------------------------------------------------------------ bounds
MaxCalls == 2             \* connect() and disconnect() calls explored
MaxActions == 3           \* write actions enqueued
MaxPinCount == 2          \* largest value of a pin's activation counter
MaxCallsInTurn == 3       \* connect() and disconnect() calls made one after the other
MaxCallsReconnect == 3    \* connect(), disconnect() and reconnect() calls explored
MaxStarts == 3            \* startBluetoothConnection...() calls explored
MaxAds == 3               \* scan results delivered to a discovery
MaxPayloadLen == 6        \* bytes of a notification payload
MaxHexLen == 4            \* characters of a payload given as a hex string
MaxLit == 3               \* LEDs of a grid that differ from the others

\* ------------------------------------------------------- program constants
maxRetries == 2

INPUT == "INPUT"
OUTPUT == "OUTPUT"
Roles == {INPUT, OUTPUT}

\* StaticConfiguration.supportedPins, in forEach order
supportedPins == <<0, 1>>
Pins == {supportedPins[k] : k \in 1..Len(supportedPins)}

\* the event keys notification|deviceId|service|characteristic the session
\* registers listeners under; UART uses one key for both roles
KeyAccel == "accel"
KeyButtonA == "buttonA"
KeyButtonB == "buttonB"
KeyUart == "uart"

\* frames: callers that may hold a pending connect() / disconnect() promise
ConnFrames == {"c1", "c2"}
DiscFrames == {"d1"}
ReconFrames == {"r1"}
Frames == ConnFrames \cup DiscFrames \cup ReconFrames

\* the other callers of initializeBluetoothLEOnce(): the app's startup code
\* and device discovery
OutsideCallers == {"startup", "discovery"}
\* device identifiers (device.deviceId || device.id), and the pending calls
\* of startBluetoothConnection / startBluetoothConnectionWithDevice
Devices == {"idA", "idB"}
FactoryCalls == {"s1", "s2"}

Keys == {KeyAccel, KeyButtonA, KeyButtonB, KeyUart}

\* the argument lists callers pass to connect(...states): one role
\* (BluetoothMicrobitFactory) or Array.from(inUseAs) (reconnect)
StateLists == {<<INPUT>>, <<OUTPUT>>, <<INPUT, OUTPUT>>}

VARIABLES
  hasDeviceId,                       \* this.deviceId is a non-empty string
  bluetoothInitialized,              \* module-level flag
  bluetoothInitializationPromise,    \* "null" | "pending" | "settled"
  inUseAs,                           \* Set in insertion order
  outputCharacteristics,             \* TRUE iff defined
  duringExplicitConnectDisconnect,
  connecting,
  isReconnect,
  finalAttempt,
  isConnected,
  notificationListeners,             \* Map keys in insertion order
  outputWriteQueue,                  \* [busy, queue]
  pinStateCounters,                  \* Map with get(pin) ?? 0
  frame,                             \* the pending async calls
  link,                              \* plugin side: the GATT link is up
  executing,                         \* write actions whose promise is pending
  nextId,                            \* id of the next write action enqueued
  started,                           \* ids of the actions run, in start order
  dropped,                           \* ids discarded by a queue reset
  lastRejected,                      \* id of the last action that rejected
  winLinkCalls,                      \* plugin.connect invocations since the
                                     \* oldest pending connect() was called
  afterDisconnect,                   \* a disconnect() has resolved and no
                                     \* listenToOutputServices ran since
  pinLevel,                          \* per pin: last level setPinInternal queued
  initializing,                      \* plugin.initialize() calls in flight
  outside,                           \* per outside caller: its await of
                                     \* initializeBluetoothLEOnce()
  platformListeners,                 \* plugin side: the listeners registered,
                                     \* as <<event key, listener>>
  listenerOf,                        \* Map values: per key the listener stored
  cooldown,                          \* reconnectReadyPromise: "none" |
                                     \* "running" | "elapsed"
  budget,                            \* calls still to explore
  deviceIdToConnection,              \* registry: per identity its session, 0 = no entry
  sessionsCreated,                   \* sessions constructed; they are numbered
  factoryCall,                       \* the pending start...() calls
  acquired,                          \* per identity: the session each call used
  sessionConnected,                  \* per session: its connect() resolved last
  startsLeft,                        \* start...() calls still to explore
  scan,                              \* requestCapacitorBluetoothDevice: its
                                     \* locals, and the plugin's scan state
  adsLeft,                           \* scan results still to deliver
  event,                             \* a notification the plugin delivers:
                                     \* the listener it goes to, event.value
  handled,                           \* what the listener did with it
  matrix,                            \* the argument of a setLeds call
  written,                           \* the value setLeds hands to plugin.write
  host,                              \* what the page finds in its window,
                                     \* navigator and user agent
  useCapacitor                       \* startBluetoothConnection's choice

vars == <<hasDeviceId, bluetoothInitialized, bluetoothInitializationPromise,
          inUseAs, outputCharacteristics, duringExplicitConnectDisconnect,
          connecting, isReconnect, finalAttempt, isConnected,
          notificationListeners, outputWriteQueue, pinStateCounters, frame,
          link, executing, nextId, started, dropped, lastRejected, winLinkCalls,
          afterDisconnect, pinLevel, initializing, outside,
          platformListeners, listenerOf, cooldown, budget,
          deviceIdToConnection, sessionsCreated, factoryCall, acquired,
          sessionConnected, startsLeft, scan, adsLeft,
          event, handled, matrix, written, host, useCapacitor>>

sessionVars == <<inUseAs, duringExplicitConnectDisconnect, connecting,
                 isReconnect, finalAttempt, isConnected, notificationListeners,
                 platformListeners, listenerOf, cooldown>>
queueVars == <<outputWriteQueue, executing, nextId, started, dropped,
               lastRejected>>
pinVars == <<pinStateCounters, pinLevel>>
initVars == <<bluetoothInitialized, bluetoothInitializationPromise,
             initializing>>
factoryVars == <<deviceIdToConnection, sessionsCreated, factoryCall, acquired,
                 sessionConnected, startsLeft>>
\* what lies outside the session and its queue
scanVars == <<scan, adsLeft>>
\* the inputs and results of the functions that keep no state
pureVars == <<event, handled, matrix, written, host, useCapacitor>>
elsewhereVars == <<outside, factoryVars, scanVars, pureVars>>

\* ----------------------------------------------------------------- helpers
Max(a, b) == IF a >= b THEN a ELSE b

SeqToSet(s) == {s[k] : k \in 1..Len(s)}

\* Set.add / Map.set on an insertion-ordered collection
AddOrdered(s, x) == IF x \in SeqToSet(s) THEN s ELSE Append(s, x)

RECURSIVE AddAll(_, _)
AddAll(s, xs) == IF xs = <<>> THEN s ELSE AddAll(AddOrdered(s, Head(xs)), Tail(xs))

Ids(q) == [k \in 1..Len(q) |-> q[k].id]

\* ------------------------------------------------------ output write queue
\* A write action is the closure pushed by setPinInternal / setLeds /
\* sendToOutputUart.  The queue never looks inside an action, so an action
\* is known by id, its position in the order of the queueAction calls.
WriteAction(id) == [id |-> id]

\* The queue with what is observed of it: Q = [wq, executing, started, dropped]
QNow == [wq |-> outputWriteQueue, executing |-> executing,
         started |-> started, dropped |-> dropped]

\* processActionQueue without the busy test
processActionQueue_ignoresBusy(oc, Q) ==
  IF ~oc
    THEN [Q EXCEPT !.wq = [busy |-> FALSE, queue |-> <<>>],
                   !.dropped = @ \cup SeqToSet(Ids(Q.wq.queue))]
    ELSE IF Q.wq.queue # <<>>
      THEN [Q EXCEPT !.wq = [busy |-> TRUE, queue |-> Tail(Q.wq.queue)],
                     !.executing = @ \cup {Head(Q.wq.queue)},
                     !.started = Append(@, Head(Q.wq.queue).id)]
      ELSE Q

\* The reset branch without the reset: the queue is kept for later.
processActionQueue_keepsQueue(oc, Q) ==
  IF ~oc THEN [Q EXCEPT !.dropped = @ \cup SeqToSet(Ids(Q.wq.queue))]
  ELSE IF Q.wq.busy THEN Q
  ELSE IF Q.wq.queue # <<>>
    THEN [Q EXCEPT !.wq = [busy |-> TRUE, queue |-> Tail(Q.wq.queue)],
                   !.executing = @ \cup {Head(Q.wq.queue)},
                   !.started = Append(@, Head(Q.wq.queue).id)]
    ELSE Q

processActionQueue(oc, Q) ==
  IF ~oc
    THEN [Q EXCEPT !.wq = [busy |-> FALSE, queue |-> <<>>],
                   !.dropped = @ \cup SeqToSet(Ids(Q.wq.queue))]
    ELSE IF Q.wq.busy
      THEN Q
      ELSE IF Q.wq.queue # <<>>
        THEN [Q EXCEPT !.wq = [busy |-> TRUE, queue |-> Tail(Q.wq.queue)],
                       !.executing = @ \cup {Head(Q.wq.queue)},
                       !.started = Append(@, Head(Q.wq.queue).id)]
        ELSE Q

queueAction(oc, Q, action) ==
  processActionQueue(oc, [Q EXCEPT !.wq.queue = Append(@, action)])

SetQ(Q) ==
  /\ outputWriteQueue' = Q.wq
  /\ executing' = Q.executing
  /\ started' = Q.started
  /\ dropped' = Q.dropped

\* setPinInternal(pin, on): queue the write of <<pin, level>>
setPinInternal(oc, Q, id, pin, on) == queueAction(oc, Q, WriteAction(id))

setPin(pin, on) ==
  LET old == pinStateCounters[pin]
      stateCounter == old + (IF on THEN 1 ELSE -1)
      changed == stateCounter = 0 \/ stateCounter = 1
  IN /\ stateCounter <= MaxPinCount
     /\ changed => nextId <= MaxActions
     /\ pinStateCounters' = [pinStateCounters EXCEPT ![pin] = Max(0, stateCounter)]
     /\ IF changed
          THEN /\ SetQ(setPinInternal(outputCharacteristics, QNow, nextId, pin, on))
               /\ nextId' = nextId + 1
               /\ UNCHANGED lastRejected
               /\ pinLevel' = [pinLevel EXCEPT ![pin] = IF on THEN "on" ELSE "off"]
          ELSE UNCHANGED <<queueVars, pinLevel>>
     /\ UNCHANGED <<elsewhereVars, hasDeviceId, initVars, sessionVars, outputCharacteristics,
                    frame, link, winLinkCalls, afterDisconnect, budget>>

RECURSIVE ResetAll(_, _, _, _)
ResetAll(oc, Q, id, pins) ==
  IF pins = <<>> THEN Q
  ELSE ResetAll(oc, setPinInternal(oc, Q, id, Head(pins), FALSE), id + 1, Tail(pins))

resetPins ==
  /\ nextId + Len(supportedPins) - 1 <= MaxActions
  /\ pinStateCounters' = [p \in Pins |-> 0]
  /\ SetQ(ResetAll(outputCharacteristics, QNow, nextId, supportedPins))
  /\ nextId' = nextId + Len(supportedPins)
  /\ UNCHANGED lastRejected
  /\ pinLevel' = [p \in Pins |-> "off"]
  /\ UNCHANGED <<elsewhereVars, hasDeviceId, initVars, sessionVars, outputCharacteristics,
                 frame, link, winLinkCalls, afterDisconnect, budget>>

setLeds ==
  /\ nextId <= MaxActions
  /\ SetQ(queueAction(outputCharacteristics, QNow, WriteAction(nextId)))
  /\ nextId' = nextId + 1
  /\ UNCHANGED lastRejected
  /\ UNCHANGED <<elsewhereVars, hasDeviceId, initVars, sessionVars, outputCharacteristics,
                 frame, link, winLinkCalls, afterDisconnect, pinVars, budget>>

sendToOutputUart ==
  /\ nextId <= MaxActions
  /\ SetQ(queueAction(outputCharacteristics, QNow, WriteAction(nextId)))
  /\ nextId' = nextId + 1
  /\ UNCHANGED lastRejected
  /\ UNCHANGED <<elsewhereVars, hasDeviceId, initVars, sessionVars, outputCharacteristics,
                 frame, link, winLinkCalls, afterDisconnect, pinVars, budget>>

\* WriteSettles with a catch handler that only logs the error
WriteSettles_catchOnlyLogs(a, ok) ==
  /\ a \in executing
  /\ ok => hasDeviceId
  /\ IF ok
       THEN SetQ(processActionQueue(outputCharacteristics,
                   [QNow EXCEPT !.wq.busy = FALSE, !.executing = @ \ {a}]))
       ELSE SetQ([QNow EXCEPT !.executing = @ \ {a}])
  /\ lastRejected' = IF ok THEN lastRejected ELSE a.id
  /\ UNCHANGED <<elsewhereVars, hasDeviceId, initVars, sessionVars, outputCharacteristics,
                 frame, link, nextId, winLinkCalls, afterDisconnect, pinVars,
                 budget>>

\* The promise of a running action settles: plugin.write resolved (ok) or
\* rejected, or the action threw 'Device not connected' before writing.  Both
\* the then and the catch handler clear busy and process the queue again.
WriteSettles(a, ok) ==
  /\ a \in executing
  /\ ok => hasDeviceId
  /\ SetQ(processActionQueue(outputCharacteristics,
            [QNow EXCEPT !.wq.busy = FALSE, !.executing = @ \ {a}]))
  /\ lastRejected' = IF ok THEN lastRejected ELSE a.id
  /\ UNCHANGED <<elsewhereVars, hasDeviceId, initVars, sessionVars, outputCharacteristics,
                 frame, link, nextId, winLinkCalls, afterDisconnect, pinVars,
                 budget>>

\* A frame that holds no pending call.  The fields after res are what the
\* caller and the test double observed of the frame's last call.
IdleFrame ==
  [pc |-> "idle", states |-> <<>>, attempt |-> 0, lastError |-> FALSE,
   isAlreadyConnected |-> FALSE, initRes |-> "none", sub |-> "none",
   retry |-> FALSE, userTriggered |-> FALSE, i |-> 0,
   res |-> "none", cb |-> <<>>, overlap |-> FALSE, linked |-> FALSE,
   linkCalls |-> 0, stepFailed |-> FALSE, didDisconnect |-> FALSE,
   tornDown |-> FALSE, removing |-> <<>>, awaits |-> "none",
   viaReconnect |-> FALSE, tdError |-> FALSE, didRemove |-> FALSE,
   finalAttempt |-> FALSE, alreadyConnectedError |-> FALSE, modelReads |-> 0]

Active(fr) == fr.pc # "idle"

\* ------------------------------------------------- the session as a value
\* W is the session (and the module-level initialization state) as one
\* record, so that the synchronous segments of connect / disconnectInternal
\* compose as functions W -> W.
WNow == [inUseAs |-> inUseAs,
         outputCharacteristics |-> outputCharacteristics,
         duringExplicitConnectDisconnect |-> duringExplicitConnectDisconnect,
         connecting |-> connecting,
         isReconnect |-> isReconnect,
         finalAttempt |-> finalAttempt,
         isConnected |-> isConnected,
         notificationListeners |-> notificationListeners,
         bluetoothInitialized |-> bluetoothInitialized,
         bluetoothInitializationPromise |-> bluetoothInitializationPromise,
         link |-> link,
         winLinkCalls |-> winLinkCalls,
         afterDisconnect |-> afterDisconnect,
         initializing |-> initializing,
         platformListeners |-> platformListeners,
         listenerOf |-> listenerOf,
         cooldown |-> cooldown,
         frame |-> frame]

\* What a returned call left to observe stays for one turn: a frame that was
\* already idle before this turn and is not called in it is blank after it.
Tidy(fs) ==
  [g \in Frames |-> IF ~Active(frame[g]) /\ fs[g] = frame[g] THEN IdleFrame ELSE fs[g]]

SetW(W) ==
  /\ inUseAs' = W.inUseAs
  /\ outputCharacteristics' = W.outputCharacteristics
  /\ duringExplicitConnectDisconnect' = W.duringExplicitConnectDisconnect
  /\ connecting' = W.connecting
  /\ isReconnect' = W.isReconnect
  /\ finalAttempt' = W.finalAttempt
  /\ isConnected' = W.isConnected
  /\ notificationListeners' = W.notificationListeners
  /\ bluetoothInitialized' = W.bluetoothInitialized
  /\ bluetoothInitializationPromise' = W.bluetoothInitializationPromise
  /\ link' = W.link
  /\ winLinkCalls' = W.winLinkCalls
  /\ afterDisconnect' = W.afterDisconnect
  /\ initializing' = W.initializing
  /\ platformListeners' = W.platformListeners
  /\ listenerOf' = W.listenerOf
  /\ cooldown' = W.cooldown
  /\ frame' = Tidy(W.frame)

At(W, f, pc) == [W EXCEPT !.frame[f].pc = pc]

Emit(W, f, entries) == [W EXCEPT !.frame[f].cb = @ \o entries]

\* the frame's call returns: keep what was observed, forget the locals
Return(W, f, res) ==
  LET fr == W.frame[f]
  IN [W EXCEPT !.frame[f] =
        [IdleFrame EXCEPT !.states = fr.states, !.attempt = fr.attempt,
                          !.res = res, !.cb = fr.cb, !.overlap = fr.overlap,
                          !.linked = fr.linked, !.linkCalls = fr.linkCalls,
                          !.stepFailed = fr.stepFailed,
                          !.didDisconnect = fr.didDisconnect,
                          !.tornDown = fr.tornDown,
                          !.viaReconnect = fr.viaReconnect,
                          !.tdError = fr.tdError,
                          !.didRemove = fr.didRemove,
                          !.finalAttempt = fr.finalAttempt]]

\* --------------------------------------------------- disconnectInternal
\* a cause that is taken from the flags alone
Cause_ignoresUserTriggered(W, userTriggered) ==
  IF W.finalAttempt THEN "false"
  ELSE IF W.isReconnect THEN "autoReconnect" ELSE "connect"

\* the cause passed to stateOnDisconnected
Cause(W, userTriggered) ==
  IF userTriggered \/ W.finalAttempt THEN "false"
  ELSE IF W.isReconnect THEN "autoReconnect" ELSE "connect"

\* connect's finally block, then the promise of the call settles
connectFinally(W, f, res) ==
  Return([W EXCEPT !.connecting = FALSE,
                   !.finalAttempt = FALSE,
                   !.duringExplicitConnectDisconnect = @ - 1], f, res)

\* reconnectReadyPromise = new Promise(... setTimeout(resolve, 3_500)): a
\* reconnect() that awaits the promise this one replaces goes on awaiting
\* that one
startCooldown(W) ==
  [W EXCEPT !.cooldown = "running",
            !.frame = [g \in Frames |->
                         IF W.frame[g].awaits = "latest"
                           THEN [W.frame[g] EXCEPT !.awaits = "older"]
                           ELSE W.frame[g]]]

\* the end of disconnectInternal: start of the cooldown, the disconnection
\* callbacks for the roles in use, and the return to the caller, which is
\* disconnect() or the catch block of connect()
disconnectInternalEnd(W, f) ==
  LET cause == Cause(W, W.frame[f].userTriggered)
      W0 == startCooldown(W)
      W1 == Emit([W0 EXCEPT !.frame[f].tornDown = TRUE], f,
                 [k \in 1..Len(W.inUseAs) |-> <<"disconnected", W.inUseAs[k], cause>>])
  IN IF f \in ConnFrames
       THEN connectFinally(W1, f, "rejected")
       ELSE Return([W1 EXCEPT !.afterDisconnect = TRUE], f, "resolved")

\* notificationListeners.clear(): a Map iterator that is still running sees
\* only the entries added after the clear
ClearListeners(W, f) ==
  [W EXCEPT !.notificationListeners = <<>>,
            !.listenerOf = [k \in Keys |-> 0],
            !.frame = [g \in Frames |->
                         IF g # f /\ W.frame[g].pc = "tdRemove"
                           THEN [W.frame[g] EXCEPT !.i = 0] ELSE W.frame[g]]]

\* the head of the listener clean-up loop; frame[f].i entries were visited
removeListeners(W, f) ==
  IF W.frame[f].i < Len(W.notificationListeners)
    THEN LET key == W.notificationListeners[W.frame[f].i + 1]
         IN [W EXCEPT !.frame[f].i = @ + 1, !.frame[f].pc = "tdRemove",
                      !.frame[f].removing = <<key, W.listenerOf[key]>>,
                      !.frame[f].didRemove = TRUE]
    ELSE disconnectInternalEnd(ClearListeners(W, f), f)

disconnectInternal(W, f, userTriggered) ==
  LET W1 == [W EXCEPT !.duringExplicitConnectDisconnect = @ + 1,
                      !.frame[f].userTriggered = userTriggered,
                      !.frame[f].i = 0]
  IN IF hasDeviceId /\ W1.isConnected
       THEN [W1 EXCEPT !.frame[f].pc = "tdDisconnect",
                       !.frame[f].didDisconnect = TRUE]
       ELSE removeListeners([W1 EXCEPT !.duringExplicitConnectDisconnect = @ - 1], f)

\* plugin.disconnect settles inside disconnectInternal
DisconnectSettles(f, ok) ==
  /\ frame[f].pc = "tdDisconnect"
  /\ LET W1 == IF ok THEN [WNow EXCEPT !.isConnected = FALSE, !.link = FALSE]
                     ELSE [WNow EXCEPT !.frame[f].tdError = TRUE]
     IN SetW(removeListeners([W1 EXCEPT !.duringExplicitConnectDisconnect = @ - 1], f))
  /\ UNCHANGED <<elsewhereVars, hasDeviceId, queueVars, pinVars, budget>>

RemoveSettles_errorPropagates(f, ok) ==
  /\ frame[f].pc = "tdRemove"
  /\ IF ok
       THEN SetW(removeListeners([WNow EXCEPT !.platformListeners = @ \ {frame[f].removing},
                                              !.frame[f].removing = <<>>], f))
       ELSE SetW(Return([WNow EXCEPT !.frame[f].tdError = TRUE], f, "rejected"))
  /\ UNCHANGED <<elsewhereVars, hasDeviceId, queueVars, pinVars, budget>>

\* listener.remove() settles; an error is logged and the loop goes on
RemoveSettles(f, ok) ==
  /\ frame[f].pc = "tdRemove"
  /\ LET W1 == IF ok THEN [WNow EXCEPT !.platformListeners = @ \ {frame[f].removing}]
                     ELSE [WNow EXCEPT !.frame[f].tdError = TRUE]
     IN SetW(removeListeners([W1 EXCEPT !.frame[f].removing = <<>>], f))
  /\ UNCHANGED <<elsewhereVars, hasDeviceId, queueVars, pinVars, budget>>

disconnect(f) ==
  /\ f \in DiscFrames
  /\ ~Active(frame[f])
  /\ budget.calls > 0
  /\ budget' = [budget EXCEPT !.calls = @ - 1]
  /\ SetW(disconnectInternal([WNow EXCEPT !.frame[f] = IdleFrame], f, TRUE))
  /\ UNCHANGED <<elsewhereVars, hasDeviceId, queueVars, pinVars>>

\* ---------------------------------------------------------------- connect
Includes(states, role) == role \in SeqToSet(states)

\* a guard that tests the connected flag instead of the reentrancy counter
connectSkips_testsIsConnected(W) == W.isConnected

\* the reentrancy guard at the head of connect()
connectSkips(W) == W.duringExplicitConnectDisconnect # 0

\* catch block of connect(): teardown, then the normalized error
connectCatch(W, f) == disconnectInternal(W, f, FALSE)

\* initializeBluetoothLEOnce() without the test of the pending promise
initializeOnceDoes_noMemo(initialized, promise) ==
  IF initialized THEN "return" ELSE "start"

\* the ways initializeBluetoothLEOnce() goes on: it returns at once, it
\* returns the stored promise (pending: "join", rejected already: "rejoin"),
\* or it starts the initialization
initializeOnceDoes(initialized, promise) ==
  IF initialized THEN "return"
  ELSE IF promise = "pending" THEN "join"
  ELSE IF promise = "rejected" THEN "rejoin" ELSE "start"

\* initializeBluetoothLEOnce() as called from ensureInitialized(); when it
\* returns at once, connect goes on to the plugin's status queries
initializeBluetoothLEOnce(W, f) ==
  LET does == initializeOnceDoes(W.bluetoothInitialized,
                                 W.bluetoothInitializationPromise)
  IN CASE does = "return" -> At(W, f, "probe")
       [] does = "join" ->
            [W EXCEPT !.frame[f].pc = "init", !.frame[f].initRes = "pending"]
       [] does = "rejoin" ->
            [W EXCEPT !.frame[f].pc = "init", !.frame[f].initRes = "fail"]
       [] OTHER ->
            [W EXCEPT !.bluetoothInitializationPromise = "pending",
                      !.initializing = @ + 1,
                      !.frame[f].pc = "init", !.frame[f].initRes = "pending"]

\* connectSuccess with the ready callbacks before the assigned ones
connectSuccess_readyFirst(W, f) ==
  LET states == W.frame[f].states
      n == Len(states)
      W1 == [W EXCEPT !.inUseAs = AddAll(@, states)]
      W2 == Emit(W1, f, [k \in 1..n |-> <<"ready", states[k], "">>])
      W3 == Emit(W2, f, [k \in 1..n |-> <<"assigned", states[k], "">>])
  IN connectFinally(W3, f, "resolved")

\* connectSuccess with the roles asked for put in the place of the roles held
connectSuccess_replacesRoles(W, f) ==
  LET states == W.frame[f].states
      n == Len(states)
      W1 == [W EXCEPT !.inUseAs = states]
      W2 == Emit(W1, f, [k \in 1..n |-> <<"assigned", states[k], "">>])
      W3 == Emit(W2, f, [k \in 1..n |-> <<"ready", states[k], "">>])
  IN connectFinally(W3, f, "resolved")

\* the tail of a successful connect(): roles, callbacks, finally
connectSuccess(W, f) ==
  LET states == W.frame[f].states
      n == Len(states)
      W1 == [W EXCEPT !.inUseAs = AddAll(@, states)]
      W2 == Emit(W1, f, [k \in 1..n |-> <<"assigned", states[k], "">>])
      W3 == Emit(W2, f, [k \in 1..n |-> <<"ready", states[k], "">>])
  IN connectFinally(W3, f, "resolved")

\* listenToOutputServices(): store the output handles, then listenToUART
listenToOutputServices(W, f) ==
  [W EXCEPT !.outputCharacteristics = TRUE,
            !.afterDisconnect = FALSE,
            !.frame[f].sub = "uartOut",
            !.frame[f].pc = "subscribe"]

SubscriptionOutcomes == {"ok", "addListenerThrows", "startNotificationsThrows"}

SubKey(sub) ==
  CASE sub = "accel" -> KeyAccel
    [] sub = "buttonA" -> KeyButtonA
    [] sub = "buttonB" -> KeyButtonB
    [] OTHER -> KeyUart

\* a subscription is set up (or its failure was only logged): the next one
subscriptionDone(W, f) ==
  LET sub == W.frame[f].sub
      next(s) == [W EXCEPT !.frame[f].sub = s, !.frame[f].pc = "subscribe"]
  IN CASE sub = "accel" -> next("buttonA")
       [] sub = "buttonA" -> next("buttonB")
       [] sub = "buttonB" -> next("uartIn")
       [] sub = "uartIn" ->
            IF Includes(W.frame[f].states, OUTPUT)
              THEN listenToOutputServices(W, f)
              ELSE connectSuccess(W, f)
       [] OTHER -> connectSuccess(W, f)

\* addListener or startNotifications threw: listenToAccelerometer rethrows
\* and listenToOutputServices has no handler; listenToInputServices logs the
\* failures of the buttons and of its UART listener and goes on
subscriptionFailed(W, f) ==
  LET W1 == [W EXCEPT !.frame[f].stepFailed = TRUE]
  IN IF W.frame[f].sub \in {"accel", "uartOut"}
       THEN connectCatch(W1, f)
       ELSE subscriptionDone(W1, f)

\* after the model number is read: 'connected' callbacks, then the services
afterModelNumber(W, f) ==
  LET states == W.frame[f].states
      W1 == Emit(W, f, [k \in 1..Len(states) |-> <<"connected", states[k], "">>])
  IN IF Includes(states, INPUT)
       THEN [W1 EXCEPT !.frame[f].sub = "accel", !.frame[f].pc = "subscribe"]
       ELSE IF Includes(states, OUTPUT)
         THEN listenToOutputServices(W1, f)
         ELSE connectSuccess(W1, f)

\* plugin.connect is invoked (one attempt of the retry loop)
rawConnect(W, f) ==
  [W EXCEPT !.winLinkCalls = @ + 1,
            !.frame[f].linkCalls = @ + 1,
            !.frame[f].pc = "link"]

\* after the retry loop: the lastError check, then isConnected = true
afterRetryLoop(W, f) ==
  IF W.frame[f].lastError /\ ~W.isConnected
    THEN connectCatch(W, f)
    ELSE At([W EXCEPT !.isConnected = TRUE], f, "model")

\* connect() with the reentrancy test inside the try block, so that the
\* finally block also runs for a skipped call
connectCall_skipInsideTry(W, f, states, via) ==
  LET fr == [IdleFrame EXCEPT !.states = states, !.viaReconnect = via,
                              !.overlap = \E g \in ConnFrames : Active(W.frame[g])]
  IN IF connectSkips(W)
       THEN [W EXCEPT !.duringExplicitConnectDisconnect = @ - 1,
                      !.frame[f] = [fr EXCEPT !.res = "skipped"]]
       ELSE LET W1 == [W EXCEPT !.duringExplicitConnectDisconnect = @ + 1,
                                !.connecting = TRUE,
                                !.winLinkCalls = IF fr.overlap THEN @ ELSE 0,
                                !.frame[f] = [fr EXCEPT !.pc = "entered"]]
            IN IF ~hasDeviceId
                 THEN connectCatch([W1 EXCEPT !.frame[f].stepFailed = TRUE], f)
                 ELSE initializeBluetoothLEOnce(W1, f)

\* the synchronous head of connect(...states), run in frame f; via: the call
\* is the one reconnect() makes
connectCall(W, f, states, via) ==
  LET overlap == \E g \in ConnFrames : Active(W.frame[g])
      W0 == IF overlap THEN W ELSE [W EXCEPT !.winLinkCalls = 0]
      fr == [IdleFrame EXCEPT !.states = states, !.overlap = overlap,
                              !.viaReconnect = via]
  IN IF connectSkips(W0)
       THEN [W0 EXCEPT !.frame[f] = [fr EXCEPT !.res = "skipped"]]
       ELSE LET W1 == [W0 EXCEPT !.duringExplicitConnectDisconnect = @ + 1,
                                 !.connecting = TRUE,
                                 !.frame[f] = [fr EXCEPT !.pc = "entered"]]
            IN IF ~hasDeviceId
                 THEN connectCatch([W1 EXCEPT !.frame[f].stepFailed = TRUE], f)
                 ELSE initializeBluetoothLEOnce(W1, f)

\* connect(...states) is called
connect(f, states) ==
  /\ f \in ConnFrames
  /\ ~Active(frame[f])
  /\ f = "c1" \/ Active(frame["c1"])   \* callers are interchangeable
  /\ budget.calls > 0
  /\ budget' = [budget EXCEPT !.calls = @ - 1]
  /\ SetW(connectCall(WNow, f, states, FALSE))
  /\ UNCHANGED <<elsewhereVars, hasDeviceId, queueVars, pinVars>>

\* ---------------------------------------------------------------- reconnect
\* reconnect() goes on after await this.reconnectReadyPromise: it calls
\* connect(...as) with the roles it read when it was called
reconnectResumes(W, r) ==
  LET f == IF Active(W.frame["c1"]) THEN "c2" ELSE "c1"
      W1 == connectCall([W EXCEPT !.frame[r] = IdleFrame], f, W.frame[r].states, TRUE)
  IN [W1 EXCEPT !.frame[f].finalAttempt = W.frame[r].finalAttempt]

RECURSIVE ResumeAll(_, _)
ResumeAll(W, rs) ==
  IF rs = {} THEN W
  ELSE LET r == CHOOSE x \in rs : TRUE
       IN ResumeAll(reconnectResumes(W, r), rs \ {r})

\* reconnect(finalAttempt) is called.  An await of a promise that is settled,
\* or of undefined, goes on in the same turn.
reconnect(r, final) ==
  /\ r \in ReconFrames
  /\ ~Active(frame[r])
  /\ \E f \in ConnFrames : ~Active(frame[f])
  /\ budget.calls > 0
  /\ budget' = [budget EXCEPT !.calls = @ - 1]
  /\ LET W1 == [WNow EXCEPT !.finalAttempt = final,
                            !.isReconnect = TRUE,
                            !.frame[r] = [IdleFrame EXCEPT !.states = inUseAs,
                                                           !.finalAttempt = final]]
     IN IF cooldown = "running"
          THEN SetW([W1 EXCEPT !.frame[r].pc = "cooldown",
                               !.frame[r].awaits = "latest"])
          ELSE SetW(reconnectResumes(W1, r))
  /\ UNCHANGED <<elsewhereVars, hasDeviceId, queueVars, pinVars>>

\* the 3.5 s of the latest reconnectReadyPromise have passed; timers of the
\* same delay fire in the order they were set
CooldownElapses ==
  /\ cooldown = "running"
  /\ \A r \in ReconFrames : frame[r].awaits # "older"
  /\ \E f \in ConnFrames : ~Active(frame[f])
  /\ SetW(ResumeAll([WNow EXCEPT !.cooldown = "elapsed"],
                    {r \in ReconFrames : frame[r].awaits = "latest"}))
  /\ UNCHANGED <<elsewhereVars, hasDeviceId, queueVars, pinVars, budget>>

\* the 3.5 s of a reconnectReadyPromise that a later teardown has replaced
\* have passed
OlderCooldownElapses ==
  /\ \E r \in ReconFrames : frame[r].awaits = "older"
  /\ \E f \in ConnFrames : ~Active(frame[f])
  /\ SetW(ResumeAll(WNow, {r \in ReconFrames : frame[r].awaits = "older"}))
  /\ UNCHANGED <<elsewhereVars, hasDeviceId, queueVars, pinVars, budget>>

\* plugin.initialize() settles: resolved, rejected with 'already
\* initialized', or rejected otherwise; every awaiter of the shared promise
\* is handed the result
InitializeSettles(outcome) ==
  /\ bluetoothInitializationPromise = "pending"
  /\ initializing > 0
  /\ initializing' = initializing - 1
  /\ bluetoothInitialized' = (outcome # "fail")
  /\ bluetoothInitializationPromise' = IF outcome = "fail" THEN "null" ELSE "settled"
  /\ frame' = [g \in Frames |->
                 IF frame[g].pc = "init" /\ frame[g].initRes = "pending"
                   THEN [frame[g] EXCEPT !.initRes = IF outcome = "fail" THEN "fail" ELSE "ok"]
                   ELSE frame[g]]
  /\ outside' = [c \in OutsideCallers |->
                   IF outside[c] = "waiting"
                     THEN (IF outcome = "fail" THEN "fail" ELSE "ok")
                     ELSE outside[c]]
  /\ UNCHANGED <<hasDeviceId, sessionVars, outputCharacteristics, link,
                 winLinkCalls, afterDisconnect, queueVars, pinVars, budget,
                 factoryVars, scanVars, pureVars>>

\* connect resumes after await this.ensureInitialized()
InitializedResumes(f) ==
  /\ frame[f].pc = "init"
  /\ frame[f].initRes \in {"ok", "fail"}
  /\ IF frame[f].initRes = "ok"
       THEN SetW(At(WNow, f, "probe"))
       ELSE SetW(connectCatch([WNow EXCEPT !.frame[f].stepFailed = TRUE], f))
  /\ UNCHANGED <<elsewhereVars, hasDeviceId, queueVars, pinVars, budget>>

\* getAuthorizationStatus / isEnabled / getConnectedDevices have settled;
\* their errors are only logged.  already: the device is in the list of
\* connected devices.
ProbeSettles(f, already) ==
  /\ frame[f].pc = "probe"
  /\ LET W1 == [WNow EXCEPT !.frame[f].isAlreadyConnected = already]
     IN IF already
          THEN SetW(At([W1 EXCEPT !.isConnected = TRUE], f, "model"))
          ELSE SetW(rawConnect(W1, f))
  /\ UNCHANGED <<elsewhereVars, hasDeviceId, queueVars, pinVars, budget>>

\* plugin.connect settles, and a failure is followed by a retry whatever the
\* number of the attempt
LinkSettles_alwaysRetries(f, ok) ==
  /\ frame[f].pc = "link"
  /\ IF ok
       THEN SetW([WNow EXCEPT !.link = TRUE, !.frame[f].linked = TRUE,
                              !.frame[f].pc = "linked"])
       ELSE SetW([WNow EXCEPT !.frame[f].lastError = TRUE,
                              !.frame[f].attempt = @ + 1,
                              !.frame[f].pc = "cleanup"])
  /\ UNCHANGED <<elsewhereVars, hasDeviceId, queueVars, pinVars, budget>>

\* plugin.connect settles
LinkSettles(f, ok) ==
  /\ frame[f].pc = "link"
  /\ IF ok
       THEN SetW([WNow EXCEPT !.link = TRUE, !.frame[f].linked = TRUE,
                              !.frame[f].pc = "linked"])
       ELSE LET W1 == [WNow EXCEPT !.frame[f].lastError = TRUE]
            IN IF frame[f].attempt = maxRetries
                 THEN SetW(connectCatch([W1 EXCEPT !.frame[f].stepFailed = TRUE], f))
                 ELSE SetW([W1 EXCEPT !.frame[f].attempt = @ + 1,
                                      !.frame[f].pc = "cleanup"])
  /\ UNCHANGED <<elsewhereVars, hasDeviceId, queueVars, pinVars, budget>>

\* plugin.connect rejects with the error that the device is already
\* connected, which it is: the catch block of the attempt treats it as any
\* other error
LinkSettlesAlreadyConnected(f) ==
  /\ frame[f].pc = "link"
  /\ link
  /\ LET W1 == [WNow EXCEPT !.frame[f].lastError = TRUE,
                            !.frame[f].alreadyConnectedError = TRUE]
     IN IF frame[f].attempt = maxRetries
          THEN SetW(connectCatch([W1 EXCEPT !.frame[f].stepFailed = TRUE], f))
          ELSE SetW([W1 EXCEPT !.frame[f].attempt = @ + 1,
                               !.frame[f].pc = "cleanup"])
  /\ UNCHANGED <<elsewhereVars, hasDeviceId, queueVars, pinVars, budget>>

\* before a retry: plugin.disconnect settles (errors ignored), the backoff
\* delay passes, and plugin.connect is invoked again
CleanupSettles(f, ok) ==
  /\ frame[f].pc = "cleanup"
  /\ SetW(rawConnect(IF ok THEN [WNow EXCEPT !.link = FALSE] ELSE WNow, f))
  /\ UNCHANGED <<elsewhereVars, hasDeviceId, queueVars, pinVars, budget>>

\* the 500 ms after a successful plugin.connect have passed: break
StabiliseDone(f) ==
  /\ frame[f].pc = "linked"
  /\ SetW(afterRetryLoop(WNow, f))
  /\ UNCHANGED <<elsewhereVars, hasDeviceId, queueVars, pinVars, budget>>

\* The settle delays and discoverServices (errors ignored) are over and
\* getModelNumber() settles: with the hardware revision (which the model
\* does not track), or with the error 'Could not read model number'; the
\* first failure is retried once after 500 ms
ModelNumberSettles(f, ok) ==
  /\ frame[f].pc = "model"
  /\ LET W1 == [WNow EXCEPT !.frame[f].modelReads = @ + 1]
     IN IF ok
          THEN SetW(afterModelNumber(W1, f))
          ELSE IF ~frame[f].retry
            THEN SetW([W1 EXCEPT !.frame[f].retry = TRUE])
            ELSE SetW(connectCatch([W1 EXCEPT !.frame[f].stepFailed = TRUE], f))
  /\ UNCHANGED <<elsewhereVars, hasDeviceId, queueVars, pinVars, budget>>

\* the listener plugin.addListener returns: an object that is none of the
\* listeners of that key still registered or still referred to
NewListener(W, key) ==
  LET used == {l[2] : l \in {m \in W.platformListeners : m[1] = key}}
                \cup {W.listenerOf[key]}
                \cup {W.frame[g].removing[2] :
                        g \in {h \in Frames : W.frame[h].removing # <<>>
                                                /\ W.frame[h].removing[1] = key}}
  IN CHOOSE n \in 1..(Cardinality(used) + 1) : n \notin used

\* One listenTo...() call settles.  It awaits plugin.addListener, stores the
\* listener under its event key, and awaits plugin.startNotifications;
\* outcome tells which of the two plugin calls threw, if any.
SubscriptionSettles(f, outcome) ==
  /\ frame[f].pc = "subscribe"
  /\ LET key == SubKey(frame[f].sub)
         listener == NewListener(WNow, key)
         stored == [WNow EXCEPT !.notificationListeners = AddOrdered(@, key),
                                !.listenerOf[key] = listener,
                                !.platformListeners = @ \cup {<<key, listener>>}]
     IN CASE outcome = "ok" -> SetW(subscriptionDone(stored, f))
          [] outcome = "startNotificationsThrows" -> SetW(subscriptionFailed(stored, f))
          [] OTHER -> SetW(subscriptionFailed(WNow, f))
  /\ UNCHANGED <<elsewhereVars, hasDeviceId, queueVars, pinVars, budget>>

\* initializeBluetoothLEOnce() is called by the app's startup code or by
\* device discovery and starts plugin.initialize(); a call that finds the
\* plugin initialized, or joins the pending promise, changes nothing
initializeOutsideSession ==
  /\ ~bluetoothInitialized
  /\ bluetoothInitializationPromise = "null"
  /\ bluetoothInitializationPromise' = "pending"
  /\ initializing' = initializing + 1
  /\ UNCHANGED <<elsewhereVars, hasDeviceId, bluetoothInitialized, sessionVars,
                 outputCharacteristics, frame, link, winLinkCalls,
                 afterDisconnect, queueVars, pinVars, budget>>

\* initializeBluetoothLEOnce() is called by caller c of the app's startup
\* code or of device discovery, which awaits the result
initializeCalledOutside(c) ==
  /\ outside[c] # "waiting"
  /\ LET does == initializeOnceDoes(bluetoothInitialized,
                                    bluetoothInitializationPromise)
     IN /\ outside' = [outside EXCEPT ![c] =
                          CASE does = "return" -> "ok"
                            [] does = "rejoin" -> "fail"
                            [] OTHER -> "waiting"]
        /\ bluetoothInitializationPromise' =
              IF does = "start" THEN "pending" ELSE bluetoothInitializationPromise
        /\ initializing' = IF does = "start" THEN initializing + 1 ELSE initializing
  /\ UNCHANGED <<hasDeviceId, bluetoothInitialized, sessionVars,
                 outputCharacteristics, frame, link, winLinkCalls,
                 afterDisconnect, queueVars, pinVars, budget, factoryVars,
                 scanVars, pureVars>>

\* The same call while getBluetoothPlugin() throws (no Capacitor bridge, or
\* no plugin on it).  A call that starts the initialization runs the async
\* function up to the throw: its catch block stores null, the function
\* returns a rejected promise, and the assignment that invoked it then
\* stores that promise.
initializeCalledOutsideNoPlugin(c) ==
  /\ outside[c] # "waiting"
  /\ LET does == initializeOnceDoes(bluetoothInitialized,
                                    bluetoothInitializationPromise)
     IN /\ outside' = [outside EXCEPT ![c] =
                          CASE does = "return" -> "ok"
                            [] does = "join" -> "waiting"
                            [] OTHER -> "fail"]
        /\ bluetoothInitializationPromise' =
              IF does = "start" THEN "rejected" ELSE bluetoothInitializationPromise
  /\ UNCHANGED <<hasDeviceId, bluetoothInitialized, sessionVars,
                 outputCharacteristics, frame, link, winLinkCalls,
                 afterDisconnect, queueVars, pinVars, budget, factoryVars,
                 scanVars, pureVars, initializing>>

\* -------------------------------------------------------------- the factory
\* a start...() call that is not pending; session: the value of its local
\* bluetooth, 0 = not assigned
IdleCall == [pc |-> "idle", dev |-> "none", session |-> 0, res |-> "none"]

\* deviceIdToConnection.get(deviceId) ?? new ...: a new session every time
acquireSession_alwaysNew(d) == sessionsCreated + 1

\* deviceIdToConnection.get(deviceId) ?? new CapacitorMicrobitBluetooth(...)
acquireSession(d) ==
  IF deviceIdToConnection[d] # 0 THEN deviceIdToConnection[d]
  ELSE sessionsCreated + 1

\* the lines from the lookup to the call of bluetooth.connect(); throws: the
\* constructor throws, and the catch block returns undefined
acquireAndSet(k, d, throws, pc) ==
  LET bluetooth == acquireSession(d)
  IN IF bluetooth > sessionsCreated /\ throws
       THEN /\ factoryCall' = [factoryCall EXCEPT ![k] =
                                [IdleCall EXCEPT !.dev = d, !.res = "undefined"]]
            /\ UNCHANGED <<deviceIdToConnection, sessionsCreated, acquired>>
       ELSE /\ sessionsCreated' = Max(sessionsCreated, bluetooth)
            /\ deviceIdToConnection' = [deviceIdToConnection EXCEPT ![d] = bluetooth]
            /\ acquired' = [acquired EXCEPT ![d] = Append(@, bluetooth)]
            /\ factoryCall' = [factoryCall EXCEPT ![k] =
                                [pc |-> pc, dev |-> d, session |-> bluetooth,
                                 res |-> "none"]]

notFactory == <<hasDeviceId, initVars, sessionVars, outputCharacteristics, frame,
                link, winLinkCalls, afterDisconnect, queueVars, pinVars, budget,
                outside, scanVars, pureVars>>

\* startBluetoothConnection(name, requestState) is called and awaits the
\* discovery
startBluetoothConnection(k) ==
  /\ factoryCall[k].pc = "idle"
  /\ startsLeft > 0
  /\ startsLeft' = startsLeft - 1
  /\ factoryCall' = [factoryCall EXCEPT ![k] = [IdleCall EXCEPT !.pc = "discover"]]
  /\ UNCHANGED <<notFactory, deviceIdToConnection, sessionsCreated, acquired,
                 sessionConnected>>

\* the discovery settles: with no device, with a device that has no
\* identifier, or with a device
DiscoverySettles(k, found, throws) ==
  /\ factoryCall[k].pc = "discover"
  /\ IF found \in Devices
       THEN acquireAndSet(k, found, throws, "connect")
       ELSE /\ factoryCall' = [factoryCall EXCEPT ![k] =
                                [IdleCall EXCEPT !.res = "undefined"]]
            /\ UNCHANGED <<deviceIdToConnection, sessionsCreated, acquired>>
  /\ UNCHANGED <<notFactory, sessionConnected, startsLeft>>

\* startBluetoothConnectionWithDevice(device, requestState) is called
startBluetoothConnectionWithDevice(k, device, throws) ==
  /\ factoryCall[k].pc = "idle"
  /\ startsLeft > 0
  /\ startsLeft' = startsLeft - 1
  /\ IF device \in Devices
       THEN acquireAndSet(k, device, throws, "delay")
       ELSE /\ factoryCall' = [factoryCall EXCEPT ![k] =
                                [IdleCall EXCEPT !.res = "undefined"]]
            /\ UNCHANGED <<deviceIdToConnection, sessionsCreated, acquired>>
  /\ UNCHANGED <<notFactory, sessionConnected>>

\* the 200 ms before bluetooth.connect() have passed
DelayDone(k) ==
  /\ factoryCall[k].pc = "delay"
  /\ factoryCall' = [factoryCall EXCEPT ![k].pc = "connect"]
  /\ UNCHANGED <<notFactory, deviceIdToConnection, sessionsCreated, acquired,
                 sessionConnected, startsLeft>>

\* bluetooth.connect(requestState) settles: the session is returned, or the
\* catch block returns undefined
ConnectSettles(k, ok) ==
  /\ factoryCall[k].pc = "connect"
  /\ factoryCall' = [factoryCall EXCEPT ![k].pc = "idle",
                                        ![k].res = IF ok THEN "session" ELSE "undefined"]
  /\ sessionConnected' = IF ok THEN sessionConnected \cup {factoryCall[k].session}
                         ELSE sessionConnected \ {factoryCall[k].session}
  /\ UNCHANGED <<notFactory, deviceIdToConnection, sessionsCreated, acquired,
                 startsLeft>>

\* the holder of a session calls its disconnect(); the factory is not told
SessionDisconnects(n) ==
  /\ n \in sessionConnected
  /\ sessionConnected' = sessionConnected \ {n}
  /\ UNCHANGED <<notFactory, deviceIdToConnection, sessionsCreated, factoryCall,
                 acquired, startsLeft>>

\* ------------------------------------------------------------ the discovery
\* Names are sequences of pieces, so that startsWith is the prefix relation:
\* the discovery is for the name "n".
deviceName == <<"BBC micro:bit [", "n", "]">>
namePrefix == <<"BBC micro:bit [", "n", "]">>
microbitPrefix == <<"BBC micro:bit [">>

\* result.name of the scan results delivered: the name looked for, a longer
\* name that starts with it, another micro:bit, another device, no name
AdNames == {deviceName,
            <<"BBC micro:bit [", "n", "]", "+">>,
            <<"BBC micro:bit [", "m", "]">>,
            <<"Other">>,
            <<>>}

startsWith(name, prefix) ==
  /\ Len(name) >= Len(prefix)
  /\ SubSeq(name, 1, Len(prefix)) = prefix

\* the test of the onScanResult callback
Matching(name) ==
  /\ name # <<>>
  /\ \/ name = deviceName
     \/ startsWith(name, namePrefix)
     \/ startsWith(name, microbitPrefix)

\* the values that are not devices, written like names
undefined == <<"undefined">>
null == <<"null">>
timeout == <<"timeout">>
nothingYet == <<"none">>

Pending == [settled |-> "pending", value |-> nothingYet]
Resolved(value) == [settled |-> "resolved", value |-> value]
Rejected == [settled |-> "rejected", value |-> nothingYet]

\* before a call of requestCapacitorBluetoothDevice; result: what the call
\* returned; stopCalls, removeCalls: 1 once stopLEScan(),
\* removeAllListeners() was called at least once
IdleScan ==
  [pc |-> "idle", foundDevices |-> <<>>, deviceFound |-> Pending,
   race |-> Pending, scanTimeout |-> "unset", cleanupOnTimeout |-> FALSE,
   result |-> nothingYet, scanStarted |-> FALSE, scanning |-> FALSE,
   listening |-> FALSE, stopCalls |-> 0, removeCalls |-> 0,
   picker |-> FALSE]

\* a catch block that throws the error on to the caller
ReturnUndefined_rethrows(S) == [S EXCEPT !.pc = "done", !.result = <<"thrown">>]

\* return undefined
ReturnUndefined(S) == [S EXCEPT !.pc = "done", !.result = undefined]

\* resolve(value) of deviceFound; a settled promise stays as it is
resolveDeviceFound(S, value) ==
  IF S.deviceFound = Pending THEN [S EXCEPT !.deviceFound = Resolved(value)] ELSE S

\* a promise handed to Promise.race resolves with value: the race settles
\* with the first of them
raceReaction(S, value) ==
  IF S.race = Pending THEN [S EXCEPT !.race = Resolved(value)] ELSE S

\* foundDevice = await Promise.race(...) goes on, to the end of the function
afterRace(S) ==
  IF S.pc # "racing" \/ S.race = Pending THEN S
  ELSE IF S.race = Rejected THEN ReturnUndefined(S)
  ELSE LET foundDevice == S.race.value
       IN IF foundDevice = null \/ foundDevice = timeout
            THEN ReturnUndefined(S)
            ELSE [S EXCEPT !.pc = "done", !.result = foundDevice]

\* bluetoothPlugin.removeAllListeners(); bluetoothPlugin.stopLEScan()
stopAndRemove(S) ==
  [S EXCEPT !.listening = FALSE, !.removeCalls = Max(@, 1),
            !.scanning = FALSE, !.stopCalls = Max(@, 1)]

\* the callback that only collects the matching results
onScanResult_collectsOnly(S, name) ==
  IF Matching(name) THEN [S EXCEPT !.foundDevices = Append(@, name)] ELSE S

\* the callback taking the first result that passes its test
onScanResult_stopsOnAnyMatch(S, name) ==
  IF ~Matching(name) THEN S
  ELSE LET S1 == [S EXCEPT !.foundDevices = Append(@, name)]
           S2 == resolveDeviceFound(stopAndRemove(S1), name)
       IN afterRace(raceReaction(S2, S2.deviceFound.value))

\* the onScanResult callback, and the reaction of the race to deviceFound
onScanResult(S, name) ==
  IF ~Matching(name) THEN S
  ELSE LET S1 == [S EXCEPT !.foundDevices = Append(@, name)]
       IN IF name = deviceName
            THEN LET S2 == resolveDeviceFound(stopAndRemove(S1), name)
                 IN afterRace(raceReaction(S2, S2.deviceFound.value))
            ELSE S1

\* scanTimeout.then(...) registered in the executor of deviceFound
timeoutCleanup(S) ==
  IF ~S.cleanupOnTimeout THEN S
  ELSE resolveDeviceFound(stopAndRemove(S),
                          IF Len(S.foundDevices) > 0 THEN S.foundDevices[1]
                                                     ELSE null)

notScan == <<hasDeviceId, initVars, sessionVars, outputCharacteristics, frame,
             link, winLinkCalls, afterDisconnect, queueVars, pinVars, budget,
             outside, factoryVars, pureVars>>

\* the same without the listeners registered on the plugin
notScanNorPlugin ==
  <<hasDeviceId, initVars, inUseAs, duringExplicitConnectDisconnect,
    connecting, isReconnect, finalAttempt, isConnected, notificationListeners,
    listenerOf, cooldown, outputCharacteristics, frame, link, winLinkCalls,
    afterDisconnect, queueVars, pinVars, budget, outside, factoryVars,
    pureVars>>

\* bluetoothPlugin.removeAllListeners(): discovery calls it on the plugin
\* object the sessions register their notification listeners on
\* (Capacitor.Plugins.BluetoothLe), and it drops every listener of the plugin
removeAllListeners(listeners) == {}

\* requestCapacitorBluetoothDevice(name) is called; the result of
\* initializeBluetoothLEOnce() is not used; it goes on to requestLEScan(),
\* or Capacitor or the plugin is missing
requestCapacitorBluetoothDevice(available) ==
  /\ scan.pc = "idle"
  /\ scan' = IF available THEN [scan EXCEPT !.pc = "permission"]
             ELSE ReturnUndefined(scan)
  /\ UNCHANGED <<notScan, adsLeft>>

\* requestLEScan() settles; when it grants, startLEScan() is called
PermissionSettles(outcome) ==
  /\ scan.pc = "permission"
  /\ scan' = IF outcome = "granted" THEN [scan EXCEPT !.pc = "starting"]
             ELSE ReturnUndefined(scan)
  /\ UNCHANGED <<notScan, adsLeft>>

\* startLEScan() settles.  When it resolved: the timer is set, the executor
\* of deviceFound calls addListener, which may throw, and registers the
\* cleanup on scanTimeout; then the race is awaited.
StartScanSettles(ok, addListenerThrows) ==
  /\ scan.pc = "starting"
  /\ scan' =
       IF ~ok THEN ReturnUndefined(scan)
       ELSE LET S1 == [scan EXCEPT !.scanStarted = TRUE, !.scanning = TRUE,
                                   !.scanTimeout = "set", !.pc = "racing"]
            IN IF addListenerThrows
                 THEN afterRace([S1 EXCEPT !.deviceFound = Rejected,
                                           !.race = Rejected])
                 ELSE [S1 EXCEPT !.listening = TRUE, !.cleanupOnTimeout = TRUE]
  /\ UNCHANGED <<notScan, adsLeft>>

\* the plugin delivers a scan result to the listener
ScanResult(name) ==
  /\ scan.scanning /\ scan.listening
  /\ adsLeft > 0
  /\ adsLeft' = adsLeft - 1
  /\ scan' = onScanResult(scan, name)
  /\ platformListeners' = IF Matching(name) /\ name = deviceName
                            THEN removeAllListeners(platformListeners)
                            ELSE platformListeners
  /\ UNCHANGED notScanNorPlugin

\* the timer of scanTimeout fires: resolve('timeout'), and the reactions to
\* scanTimeout run in the order they were registered, the cleanup of line
\* 142 before the one of Promise.race of line 160
TimeoutFires ==
  /\ scan.scanTimeout = "set"
  /\ scan' = afterRace(raceReaction(timeoutCleanup([scan EXCEPT !.scanTimeout = "fired"]),
                                    timeout))
  /\ platformListeners' = IF scan.cleanupOnTimeout
                            THEN removeAllListeners(platformListeners)
                            ELSE platformListeners
  /\ UNCHANGED <<notScanNorPlugin, adsLeft>>

\* requestWebBluetoothDevice(name) is called: Web Bluetooth is missing, or
\* navigator.bluetooth.requestDevice() is raced against the timer
requestWebBluetoothDevice(available) ==
  /\ scan.pc = "idle"
  /\ scan' = IF available
               THEN [scan EXCEPT !.pc = "racing", !.picker = TRUE,
                                 !.scanTimeout = "set"]
               ELSE ReturnUndefined(scan)
  /\ UNCHANGED <<notScan, adsLeft>>

\* requestDevice() settles: the user picked a device, whose name has the
\* prefix asked for, or closed the picker, or the browser failed
PickerSettles(outcome) ==
  /\ scan.picker /\ scan.deviceFound = Pending
  /\ scan' = IF outcome = "device"
               THEN afterRace(raceReaction([scan EXCEPT !.deviceFound = Resolved(deviceName)],
                                           deviceName))
               ELSE LET S1 == [scan EXCEPT !.deviceFound = Rejected]
                    IN afterRace(IF S1.race = Pending THEN [S1 EXCEPT !.race = Rejected]
                                                      ELSE S1)
  /\ UNCHANGED <<notScan, adsLeft>>

\* device.deviceId || device.id of what the discovery returned
deviceIdOf(result) ==
  IF result = deviceName THEN "idA"
  ELSE IF result \in AdNames THEN "idB" ELSE "none"

\* startBluetoothConnection goes on after the await of the discovery it
\* called
DiscoveryReturns(k, throws) ==
  /\ scan.pc = "done"
  /\ DiscoverySettles(k, deviceIdOf(scan.result), throws)

\* ---------------------------------------------------------- specification
\* the session after construction, no call made yet
\* no notification delivered, no setLeds call, no transport chosen yet
NoEvent == [handler |-> "none", value |-> [type |-> "undefined", data |-> <<>>]]
NotHandled == [threw |-> FALSE, dispatched |-> <<>>, done |-> FALSE]
NoHost == [os |-> "desktop", capacitor |-> FALSE, getPlatform |-> "web",
           osName |-> "other", userAgent |-> "other", bluetooth |-> FALSE]

\* ---------------------------------------------------------- the transport
\* The hosts: the operating system the page runs on; whether window.Capacitor
\* is defined and what its getPlatform() returns ('web' when the page is not
\* inside the native shell); whether Bowser and the user agent string tell
\* the operating system (an iPad may present itself as a desktop); whether
\* navigator.bluetooth exists.
Hosts ==
  {[os |-> os, capacitor |-> cap,
    getPlatform |-> IF cap /\ native /\ os # "desktop" THEN os ELSE "web",
    osName |-> IF bowser THEN os ELSE "other",
    userAgent |-> IF ua THEN os ELSE "other",
    bluetooth |-> ble] :
     os \in {"ios", "android", "desktop"}, cap \in BOOLEAN, native \in BOOLEAN,
     bowser \in BOOLEAN, ua \in BOOLEAN, ble \in BOOLEAN}

\* detectPlatform(): Capacitor's answer first, then Bowser's OS name, then the
\* user agent string
detectPlatform(h) ==
  IF h.capacitor /\ h.getPlatform \in {"ios", "android"} THEN h.getPlatform
  ELSE IF h.osName \in {"ios", "android"} THEN h.osName
  ELSE IF h.userAgent \in {"ios", "android"} THEN h.userAgent
  ELSE "desktop"

isWebBluetoothAvailable(h) == h.bluetooth
isCapacitorAvailable(h) == h.capacitor

\* shouldUseCapacitorBluetooth()
shouldUseCapacitorBluetooth(h) ==
  detectPlatform(h) = "ios" \/ (isCapacitorAvailable(h) /\ ~isWebBluetoothAvailable(h))

\* const useCapacitor = shouldUseCapacitorBluetooth()
ChooseTransport ==
  /\ useCapacitor = "unset" /\ host \in Hosts
  /\ useCapacitor' = IF shouldUseCapacitorBluetooth(host) THEN "Capacitor"
                                                          ELSE "Web Bluetooth"
  /\ UNCHANGED <<hasDeviceId, initVars, sessionVars, outputCharacteristics, frame,
                 link, winLinkCalls, afterDisconnect, queueVars, pinVars, budget,
                 outside, factoryVars, scanVars, event, handled, matrix, written,
                 host>>

\* ------------------------------------------------- notification listeners
\* sequences over S of length up to n
SeqsUpTo(S, n) == UNION {[1..k -> S] : k \in 0..n}

\* event.value as the plugin may hand it over: missing, a hex string (given
\* by its digits), an array of numbers, or a DataView / Uint8Array /
\* ArrayBuffer (given by its bytes)
ByteValues == {1, 255}
HexDigits == {0, 15}
Values ==
  {[type |-> "undefined", data |-> <<>>]}
    \cup [type : {"string"}, data : SeqsUpTo(HexDigits, MaxHexLen)]
    \cup [type : {"array", "bytes"}, data : SeqsUpTo(ByteValues, MaxPayloadLen)]

\* valueToDataView(value): the bytes of the DataView it returns.  A string is
\* cut into pieces of two characters, the last one of one character when the
\* length is odd, and each piece is read as a hexadecimal number;
\* new Uint8Array(undefined) is empty and new Uint8Array(array) keeps each
\* number modulo 256.
valueToDataView(value) ==
  CASE value.type = "string" ->
         [k \in 1..((Len(value.data) + 1) \div 2) |->
            IF 2 * k <= Len(value.data)
              THEN 16 * value.data[2 * k - 1] + value.data[2 * k]
              ELSE value.data[2 * k - 1]]
    [] value.type = "array" -> [k \in 1..Len(value.data) |-> value.data[k] % 256]
    [] value.type = "bytes" -> value.data
    [] OTHER -> <<>>

\* dataView.getInt16(byteOffset, true): little-endian, two's complement
getInt16(dataView, byteOffset) ==
  LET u == dataView[byteOffset + 1] + 256 * dataView[byteOffset + 2]
  IN IF u >= 32768 THEN u - 65536 ELSE u

\* a read of w bytes at byteOffset beyond the end throws a RangeError
inRange(dataView, byteOffset, w) == byteOffset + w <= Len(dataView)

Threw == [threw |-> TRUE, dispatched |-> <<>>, done |-> TRUE]
Dispatched(callback) == [threw |-> FALSE, dispatched |-> <<callback>>, done |-> TRUE]

\* the listener of listenToAccelerometer
accelerometerListener(value) ==
  LET dataView == valueToDataView(value)
  IN IF ~inRange(dataView, 0, 2) \/ ~inRange(dataView, 2, 2) \/ ~inRange(dataView, 4, 2)
       THEN Threw
       ELSE Dispatched(<<"onAccelerometerChange", getInt16(dataView, 0),
                         getInt16(dataView, 2), getInt16(dataView, 4)>>)

\* the listener of listenToButton(button)
buttonListener(value, button) ==
  LET dataView == valueToDataView(value)
  IN IF ~inRange(dataView, 0, 1) THEN Threw
     ELSE LET stateId == dataView[1]
              state == IF stateId = 2 THEN "LongPressed"
                       ELSE IF stateId = 1 THEN "Pressed" ELSE "Released"
          IN Dispatched(<<"onButtonChange", state, button>>)

\* the listener of listenToUART(state): the string has one character per
\* byte
uartListener(value) ==
  Dispatched(<<"onUARTDataReceived", valueToDataView(value)>>)

Handlers == {"accelerometer", "buttonA", "buttonB", "uart"}

\* the plugin invokes the listener registered for the event key
NotificationArrives ==
  /\ event.handler \in Handlers /\ ~handled.done
  /\ handled' = CASE event.handler = "accelerometer" -> accelerometerListener(event.value)
                  [] event.handler = "buttonA" -> buttonListener(event.value, "A")
                  [] event.handler = "buttonB" -> buttonListener(event.value, "B")
                  [] OTHER -> uartListener(event.value)
  /\ UNCHANGED <<hasDeviceId, initVars, sessionVars, outputCharacteristics, frame,
                 link, winLinkCalls, afterDisconnect, queueVars, pinVars, budget,
                 outside, factoryVars, scanVars, event, matrix, written, host,
                 useCapacitor>>

\* -------------------------------------------------------------- LED matrix
\* the sets of at most n of the 25 positions
RECURSIVE PositionSets(_)
PositionSets(n) ==
  IF n = 0 THEN {{}}
  ELSE LET smaller == PositionSets(n - 1)
       IN smaller \cup {S \cup {p} : S \in smaller, p \in 1..25}

\* boolean[] of length 25, row by row: the grids with at most MaxLit LEDs
\* on, and those with at most MaxLit LEDs off
Grids ==
  {[k \in 1..25 |-> (k \in S) = on] : S \in PositionSets(MaxLit), on \in BOOLEAN}

\* .reduce((byte, bool) => (byte << 1) | (bool ? 1 : 0), byte)
RECURSIVE reduce(_, _)
reduce(bools, byte) ==
  IF bools = <<>> THEN byte
  ELSE reduce(Tail(bools), 2 * byte + (IF Head(bools) THEN 1 ELSE 0))

\* a row encoded with its first column in the lowest bit
rowByte_lowBitFirst(row) ==
  LET weight(c) == IF c = 1 THEN 1 ELSE IF c = 2 THEN 2 ELSE IF c = 3 THEN 4
                   ELSE IF c = 4 THEN 8 ELSE 16
      RECURSIVE sum(_)
      sum(c) == IF c = 0 THEN 0
                ELSE sum(c - 1) + (IF row[c] THEN weight(c) ELSE 0)
  IN sum(Len(row))

\* the byte of one row; dataView.setUint8 keeps it modulo 256
rowByte(row) == reduce(row, 0) % 256

\* matrix.slice(begin, end), 0-based, end excluded
slice(m, begin, end) ==
  SubSeq(m, begin + 1, IF end <= Len(m) THEN end ELSE Len(m))

\* the value setLeds hands to plugin.write: Array.from(new Uint8Array(...))
setLedsValue(m) == [i \in 1..5 |-> rowByte(slice(m, (i - 1) * 5, 5 + (i - 1) * 5))]

\* the action setLeds queued runs and writes the LED matrix characteristic
LedsWritten ==
  /\ matrix # <<>> /\ written = <<>>
  /\ written' = setLedsValue(matrix)
  /\ UNCHANGED <<hasDeviceId, initVars, sessionVars, outputCharacteristics, frame,
                 link, winLinkCalls, afterDisconnect, queueVars, pinVars, budget,
                 outside, factoryVars, scanVars, event, handled, matrix, host,
                 useCapacitor>>

Untouched ==
  /\ event = NoEvent
  /\ handled = NotHandled
  /\ matrix = <<>>
  /\ written = <<>>
  /\ host = NoHost
  /\ useCapacitor = "unset"

ConstructedSession ==
  /\ hasDeviceId \in BOOLEAN
  /\ bluetoothInitialized = FALSE
  /\ bluetoothInitializationPromise = "null"
  /\ inUseAs = <<>>
  /\ outputCharacteristics = FALSE
  /\ duringExplicitConnectDisconnect = 0
  /\ connecting = FALSE
  /\ isReconnect = FALSE
  /\ finalAttempt = FALSE
  /\ isConnected = FALSE
  /\ notificationListeners = <<>>
  /\ outputWriteQueue = [busy |-> FALSE, queue |-> <<>>]
  /\ pinStateCounters = [p \in Pins |-> 0]
  /\ frame = [f \in Frames |-> IdleFrame]
  /\ link = FALSE
  /\ executing = {}
  /\ nextId = 1
  /\ started = <<>>
  /\ dropped = {}
  /\ lastRejected = 0
  /\ winLinkCalls = 0
  /\ afterDisconnect = FALSE
  /\ pinLevel = [p \in Pins |-> "none"]
  /\ initializing = 0
  /\ outside = [c \in OutsideCallers |-> "idle"]
  /\ platformListeners = {}
  /\ listenerOf = [k \in Keys |-> 0]
  /\ cooldown = "none"
  /\ deviceIdToConnection = [d \in Devices |-> 0]
  /\ sessionsCreated = 0
  /\ factoryCall = [k \in FactoryCalls |-> IdleCall]
  /\ acquired = [d \in Devices |-> <<>>]
  /\ sessionConnected = {}
  /\ startsLeft = MaxStarts
  /\ scan = IdleScan
  /\ adsLeft = MaxAds

Constructed == ConstructedSession /\ Untouched

Init ==
  /\ Constructed
  /\ budget = [calls |-> MaxCalls]

\* The session: every call of connect / disconnect and every answer of the
\* plugin to them; the platform removes every listener it is asked to remove
\* (SpecTeardown has the removals that fail).
Next ==
  \/ \E f \in ConnFrames, states \in StateLists : connect(f, states)
  \/ \E outcome \in {"ok", "already", "fail"} : InitializeSettles(outcome)
  \/ \E f \in ConnFrames : InitializedResumes(f)
  \/ \E f \in ConnFrames, already \in BOOLEAN : ProbeSettles(f, already)
  \/ \E f \in ConnFrames, ok \in BOOLEAN : LinkSettles(f, ok)
  \/ \E f \in ConnFrames, ok \in BOOLEAN : CleanupSettles(f, ok)
  \/ \E f \in ConnFrames : StabiliseDone(f)
  \/ \E f \in ConnFrames, ok \in BOOLEAN : ModelNumberSettles(f, ok)
  \/ \E f \in ConnFrames, outcome \in SubscriptionOutcomes : SubscriptionSettles(f, outcome)
  \/ \E f \in DiscFrames : disconnect(f)
  \/ \E f \in Frames, ok \in BOOLEAN : DisconnectSettles(f, ok)
  \/ \E f \in Frames : RemoveSettles(f, TRUE)
  \/ initializeOutsideSession

Spec == Init /\ [][Next]_vars

\* The output side: every call of setPin / resetPins / setLeds /
\* sendToOutputUart and every answer of the plugin to a write, around a
\* session that connects for OUTPUT until the output handles are resolved and
\* disconnects while it is connected.  The queue reads nothing of the session
\* but deviceId and outputCharacteristics, so here the plugin answers the
\* connect sequence without errors up to the subscription, and the teardown
\* without errors.
NextQueue ==
  \/ \E pin \in Pins, on \in BOOLEAN : setPin(pin, on)
  \/ resetPins
  \/ setLeds
  \/ sendToOutputUart
  \/ \E a \in executing, ok \in BOOLEAN : WriteSettles(a, ok)
  \/ ~outputCharacteristics /\ connect("c1", <<OUTPUT>>)
  \/ InitializeSettles("ok")
  \/ InitializedResumes("c1")
  \/ ProbeSettles("c1", FALSE)
  \/ LinkSettles("c1", TRUE)
  \/ StabiliseDone("c1")
  \/ ModelNumberSettles("c1", TRUE)
  \/ \E outcome \in SubscriptionOutcomes : SubscriptionSettles("c1", outcome)
  \/ \E f \in DiscFrames : isConnected /\ disconnect(f)
  \/ \E f \in Frames : DisconnectSettles(f, TRUE)
  \/ \E f \in Frames : RemoveSettles(f, TRUE)

SpecQueue == Init /\ [][NextQueue]_vars

\* The same with the plugin settling every write it was handed.
SpecQueueLive ==
  SpecQueue /\ WF_vars(\E a \in executing, ok \in BOOLEAN : WriteSettles(a, ok))

\* The one-time initialization: the callers of initializeBluetoothLEOnce
\* (startup, discovery, the connect of the session) in every interleaving with
\* the answers of plugin.initialize(); the plugin answers the rest of a
\* connect without errors and reports the device as connected already.
NextInit ==
  \/ \E c \in OutsideCallers : initializeCalledOutside(c)
  \/ \E f \in ConnFrames : connect(f, <<INPUT>>)
  \/ \E outcome \in {"ok", "already", "fail"} : InitializeSettles(outcome)
  \/ \E f \in ConnFrames : InitializedResumes(f)
  \/ \E f \in ConnFrames : ProbeSettles(f, TRUE)
  \/ \E f \in ConnFrames : ModelNumberSettles(f, TRUE)
  \/ \E f \in ConnFrames : SubscriptionSettles(f, "ok")

SpecInit == Init /\ [][NextInit]_vars

\* The same with calls made while the plugin cannot be obtained.
NextInitNoPlugin ==
  \/ NextInit
  \/ \E c \in OutsideCallers : initializeCalledOutsideNoPlugin(c)

SpecInitNoPlugin == Init /\ [][NextInitNoPlugin]_vars

\* The teardown with a platform that may fail: connect (answered without
\* errors up to the subscriptions) and disconnect in every interleaving, with
\* plugin.disconnect and listener.remove() resolving or rejecting.
NextTeardown ==
  \/ \E states \in StateLists : connect("c1", states)
  \/ InitializeSettles("ok")
  \/ InitializedResumes("c1")
  \/ ProbeSettles("c1", FALSE)
  \/ LinkSettles("c1", TRUE)
  \/ StabiliseDone("c1")
  \/ ModelNumberSettles("c1", TRUE)
  \/ \E outcome \in SubscriptionOutcomes : SubscriptionSettles("c1", outcome)
  \/ \E f \in DiscFrames : disconnect(f)
  \/ \E f \in Frames, ok \in BOOLEAN : DisconnectSettles(f, ok)
  \/ \E f \in Frames, ok \in BOOLEAN : RemoveSettles(f, ok)

SpecTeardown == Init /\ [][NextTeardown]_vars

\* Connects and disconnects called one after the other, none while another
\* call is pending, with plugin.disconnect and listener.remove() resolving or
\* rejecting.
NextInTurn ==
  \/ \E states \in StateLists :
       (\A f \in Frames : ~Active(frame[f])) /\ connect("c1", states)
  \/ InitializeSettles("ok")
  \/ InitializedResumes("c1")
  \/ ProbeSettles("c1", FALSE)
  \/ LinkSettles("c1", TRUE)
  \/ StabiliseDone("c1")
  \/ ModelNumberSettles("c1", TRUE)
  \/ \E outcome \in SubscriptionOutcomes : SubscriptionSettles("c1", outcome)
  \/ \E d \in DiscFrames :
       (\A f \in Frames : ~Active(frame[f])) /\ disconnect(d)
  \/ \E f \in Frames, ok \in BOOLEAN : DisconnectSettles(f, ok)
  \/ \E f \in Frames, ok \in BOOLEAN : RemoveSettles(f, ok)

InitInTurn ==
  /\ Constructed
  /\ budget = [calls |-> MaxCallsInTurn]

SpecInTurn == InitInTurn /\ [][NextInTurn]_vars

\* The automatic reconnection: connect, disconnect and reconnect in every
\* interleaving with the cooldown timers, the plugin answering without
\* errors.
NextReconnect ==
  \/ \E states \in StateLists : connect("c1", states)
  \/ \E r \in ReconFrames, final \in BOOLEAN : reconnect(r, final)
  \/ CooldownElapses
  \/ OlderCooldownElapses
  \/ \E f \in DiscFrames : disconnect(f)
  \/ InitializeSettles("ok")
  \/ \E f \in ConnFrames : InitializedResumes(f)
  \/ \E f \in ConnFrames : ProbeSettles(f, FALSE)
  \/ \E f \in ConnFrames : LinkSettles(f, TRUE)
  \/ \E f \in ConnFrames : StabiliseDone(f)
  \/ \E f \in ConnFrames : ModelNumberSettles(f, TRUE)
  \/ \E f \in ConnFrames : SubscriptionSettles(f, "ok")
  \/ \E f \in Frames : DisconnectSettles(f, TRUE)
  \/ \E f \in Frames : RemoveSettles(f, TRUE)

InitReconnect ==
  /\ Constructed
  /\ budget = [calls |-> MaxCallsReconnect]

SpecReconnect == InitReconnect /\ [][NextReconnect]_vars

\* The factory: the start...() calls for two identities in every
\* interleaving, with every outcome of the discovery, of the constructor and
\* of the session's connect(), and the disconnects of the sessions.
NextFactory ==
  \/ \E k \in FactoryCalls : startBluetoothConnection(k)
  \/ \E k \in FactoryCalls, found \in Devices \cup {"none", "noId"},
        throws \in BOOLEAN : DiscoverySettles(k, found, throws)
  \/ \E k \in FactoryCalls, device \in Devices \cup {"noId"},
        throws \in BOOLEAN : startBluetoothConnectionWithDevice(k, device, throws)
  \/ \E k \in FactoryCalls : DelayDone(k)
  \/ \E k \in FactoryCalls, ok \in BOOLEAN : ConnectSettles(k, ok)
  \/ \E n \in 1..MaxStarts : SessionDisconnects(n)

SpecFactory == Init /\ [][NextFactory]_vars

\* The active-scan discovery: one call of requestCapacitorBluetoothDevice
\* with every answer of the plugin, the scan results in every order and the
\* timeout at every point.
NextScan ==
  \/ \E available \in BOOLEAN : requestCapacitorBluetoothDevice(available)
  \/ \E outcome \in {"granted", "denied", "rejected"} : PermissionSettles(outcome)
  \/ \E ok, addListenerThrows \in BOOLEAN : StartScanSettles(ok, addListenerThrows)
  \/ \E name \in AdNames : ScanResult(name)
  \/ TimeoutFires

SpecScan == Init /\ [][NextScan]_vars

\* The same beside a session that connects for INPUT, the plugin answering
\* the connect without errors.
NextScanBesideSession ==
  \/ NextScan
  \/ (\A f \in Frames : ~Active(frame[f])) /\ ~isConnected /\ connect("c1", <<INPUT>>)
  \/ InitializeSettles("ok")
  \/ InitializedResumes("c1")
  \/ ProbeSettles("c1", FALSE)
  \/ LinkSettles("c1", TRUE)
  \/ StabiliseDone("c1")
  \/ ModelNumberSettles("c1", TRUE)
  \/ SubscriptionSettles("c1", "ok")

SpecScanBesideSession == Init /\ [][NextScanBesideSession]_vars

\* Calls of connect() and reconnect() one after the other, each made when the
\* one before has returned, with reads of the model number that fail: the
\* attempts that fail and what they report.
NextCause ==
  \/ \E states \in StateLists :
       (\A f \in Frames : ~Active(frame[f])) /\ connect("c1", states)
  \/ \E r \in ReconFrames, final \in BOOLEAN :
       (\A f \in Frames : ~Active(frame[f])) /\ reconnect(r, final)
  \/ CooldownElapses
  \/ InitializeSettles("ok")
  \/ InitializedResumes("c1")
  \/ ProbeSettles("c1", FALSE)
  \/ LinkSettles("c1", TRUE)
  \/ StabiliseDone("c1")
  \/ \E ok \in BOOLEAN : ModelNumberSettles("c1", ok)
  \/ SubscriptionSettles("c1", "ok")
  \/ DisconnectSettles("c1", TRUE)
  \/ RemoveSettles("c1", TRUE)

SpecCause == InitReconnect /\ [][NextCause]_vars

\* Calls of connect() one after the other with every answer of the plugin to
\* the connected-devices query, to plugin.connect, to the disconnect before a
\* retry and to the reads of the model number.
NextAttempts ==
  \/ \E states \in StateLists :
       (\A f \in Frames : ~Active(frame[f])) /\ connect("c1", states)
  \/ InitializeSettles("ok")
  \/ InitializedResumes("c1")
  \/ \E already \in BOOLEAN : ProbeSettles("c1", already)
  \/ LinkSettlesAlreadyConnected("c1")
  \/ \E ok \in BOOLEAN : LinkSettles("c1", ok)
  \/ \E ok \in BOOLEAN : CleanupSettles("c1", ok)
  \/ StabiliseDone("c1")
  \/ \E ok \in BOOLEAN : ModelNumberSettles("c1", ok)
  \/ SubscriptionSettles("c1", "ok")
  \/ DisconnectSettles("c1", TRUE)
  \/ RemoveSettles("c1", TRUE)

SpecAttempts == Init /\ [][NextAttempts]_vars

\* One notification, of any of the values the plugin may hand over, to any
\* of the listeners of the session.
InitHandlers ==
  /\ ConstructedSession
  /\ budget = [calls |-> MaxCalls]
  /\ event \in [handler : Handlers, value : Values]
  /\ handled = NotHandled
  /\ matrix = <<>> /\ written = <<>>
  /\ host = NoHost /\ useCapacitor = "unset"

NextHandlers == NotificationArrives

SpecHandlers == InitHandlers /\ [][NextHandlers]_vars

\* One setLeds call with any of the grids.
InitLeds ==
  /\ ConstructedSession
  /\ budget = [calls |-> MaxCalls]
  /\ matrix \in Grids
  /\ written = <<>>
  /\ event = NoEvent /\ handled = NotHandled
  /\ host = NoHost /\ useCapacitor = "unset"

NextLeds == LedsWritten

SpecLeds == InitLeds /\ [][NextLeds]_vars

\* The choice of the transport on any of the hosts.
InitTransport ==
  /\ ConstructedSession
  /\ budget = [calls |-> MaxCalls]
  /\ host \in Hosts
  /\ useCapacitor = "unset"
  /\ event = NoEvent /\ handled = NotHandled
  /\ matrix = <<>> /\ written = <<>>

NextTransport == ChooseTransport

SpecTransport == InitTransport /\ [][NextTransport]_vars

\* startBluetoothConnection with its discovery, under the one protocol or the
\* other: one call, every answer of the plugin or of the browser, the scan
\* results in every order and the timeout at every point.
NextDiscovery ==
  \/ scan.pc = "idle" /\ startBluetoothConnection("s1")
  \/ \E available \in BOOLEAN :
       factoryCall["s1"].pc = "discover" /\ requestCapacitorBluetoothDevice(available)
  \/ \E available \in BOOLEAN :
       factoryCall["s1"].pc = "discover" /\ requestWebBluetoothDevice(available)
  \/ \E outcome \in {"granted", "denied", "rejected"} : PermissionSettles(outcome)
  \/ \E ok, addListenerThrows \in BOOLEAN : StartScanSettles(ok, addListenerThrows)
  \/ \E name \in AdNames : ScanResult(name)
  \/ \E outcome \in {"device", "cancelled", "error"} : PickerSettles(outcome)
  \/ TimeoutFires
  \/ \E throws \in BOOLEAN : DiscoveryReturns("s1", throws)
  \/ \E ok \in BOOLEAN : ConnectSettles("s1", ok)

SpecDiscovery == Init /\ [][NextDiscovery]_vars

\* ------------------------------------------------------------------ claims
Returned(fr) == ~Active(fr) /\ fr.res \in {"resolved", "rejected"}

\* C1: while a connect() is pending, a further connect() returns at once
\* without error and runs nothing (at most one connect body is ever in
\* progress), and when the first plugin.connect of the pending call succeeds
\* it is the only plugin.connect invocation made since that call, however
\* many connect() calls overlapped it.
C1_OverlappingConnectIsNoOp ==
  /\ Cardinality({f \in ConnFrames : Active(frame[f])}) <= 1
  /\ \A f \in ConnFrames :
       frame[f].overlap => ~Active(frame[f]) /\ frame[f].res = "skipped"
  /\ \A f \in ConnFrames :
       frame[f].linked /\ frame[f].attempt = 0 => winLinkCalls = 1

C1_Witness ==
  \E f, g \in ConnFrames :
    /\ Active(frame[f]) /\ frame[f].linked /\ frame[f].attempt = 0
    /\ frame[g].overlap /\ frame[g].res = "skipped"
    /\ winLinkCalls = 1

\* C2: when plugin.connect fails k <= 2 times and then succeeds, and no other
\* step of the call fails, connect() resolves, after exactly k + 1
\* plugin.connect invocations.
C2_RetryThenSuccessResolves ==
  \A f \in ConnFrames :
    Returned(frame[f]) /\ frame[f].linked /\ ~frame[f].stepFailed
      => frame[f].res = "resolved" /\ frame[f].linkCalls = frame[f].attempt + 1

\* C3: when a step of connect() fails (initialization, plugin.connect after
\* its retries, the model-number read, a subscription), connect() rejects,
\* and it rejects only after disconnectInternal has run to its end.
C3_FailedStepRejectsAfterTeardown ==
  \A f \in ConnFrames :
    Returned(frame[f]) =>
      /\ frame[f].stepFailed => frame[f].res = "rejected"
      /\ frame[f].res = "rejected" => frame[f].tornDown

\* C4: a connect(states) that resolves has called back, for every role in
\* states, connected, then assigned, then ready, once each, and nothing for
\* a role that is not in states.
C4_CallbacksOncePerRoleInOrder ==
  \A f \in ConnFrames :
    frame[f].res = "resolved" =>
      \A r \in Roles :
        LET Mine(e) == e[2] = r
            mine == SelectSeq(frame[f].cb, Mine)
        IN IF Includes(frame[f].states, r)
             THEN [k \in 1..Len(mine) |-> mine[k][1]] = <<"connected", "assigned", "ready">>
             ELSE mine = <<>>

C4_Witness ==
  \E f \in ConnFrames :
    /\ frame[f].res = "resolved"
    /\ frame[f].states = <<INPUT, OUTPUT>>
    /\ Len(frame[f].cb) = 6

\* C5: a teardown never removes a notification listener after it has issued
\* its plugin.disconnect call.
C5_ListenersRemovedBeforeDisconnect ==
  \A f \in Frames : frame[f].pc = "tdRemove" => ~frame[f].didDisconnect

\* C6: a setPin call queues a write exactly when it moves the pin's
\* activation counter from 0 to 1 or from 1 to 0, so the writes of any
\* sequence of calls number its 0->1 and 1->0 transitions.
C6_WritesAreCounterEdges ==
  [][\A pin \in Pins, on \in BOOLEAN :
       setPin(pin, on) =>
         ((nextId' = nextId + 1) <=>
            \/ pinStateCounters[pin] = 0 /\ pinStateCounters'[pin] = 1
            \/ pinStateCounters[pin] = 1 /\ pinStateCounters'[pin] = 0)]_vars

\* C7: the last level queued for a pin is 'on' exactly when the pin's
\* activation counter is greater than 0.
C7_LevelOnIffCounterPositive ==
  \A p \in Pins : (pinLevel[p] = "on") <=> (pinStateCounters[p] > 0)

\* C8: at most one write action of the session is executing at any moment.
C8_OneWriteAtATime == Cardinality(executing) <= 1

C8_Witness ==
  /\ Cardinality(executing) = 1
  /\ Len(outputWriteQueue.queue) >= 2

\* C9: the actions start in the order of their queueAction calls, none that
\* the queue accepted is skipped, pending actions always have one action
\* running ahead of them, also after an action rejected, and with the plugin
\* settling every write no accepted action waits forever: again and again
\* every action enqueued and not discarded by a reset has been started.
C9_StartOrderIsEnqueueOrder ==
  /\ [](LET all == started \o Ids(outputWriteQueue.queue)
        IN /\ \A i, j \in 1..Len(all) : i < j => all[i] < all[j]
           /\ SeqToSet(all) = (1..(nextId - 1)) \ dropped
           /\ outputWriteQueue.queue # <<>>
                => outputWriteQueue.busy /\ executing # {})
  /\ []<>(SeqToSet(started) = (1..(nextId - 1)) \ dropped)

C9_Witness ==
  /\ started = <<1, 2, 3>>
  /\ lastRejected = 2
  /\ \E a \in executing : a.id = 3

\* C10: once a disconnect() has resolved, the output handles are unresolved
\* until listenToOutputServices resolves them again.
C10_HandlesClearedByDisconnect == afterDisconnect => ~outputCharacteristics

\* the callers that await the pending initialization promise
InitWaiters ==
  {c \in OutsideCallers : outside[c] = "waiting"}
    \cup {f \in ConnFrames : frame[f].pc = "init" /\ frame[f].initRes = "pending"}

InitOutcomeOf(w) ==
  IF w \in OutsideCallers THEN outside'[w] ELSE frame'[w].initRes

\* C15: plugin.initialize() is never invoked while an invocation is in flight
\* and never again once one has succeeded, whoever calls
\* initializeBluetoothLEOnce and in whatever order; every caller that waits
\* does so on the one invocation in flight, and when it settles all of them
\* get its outcome.
C15_SingleInFlightInitialize ==
  /\ [](/\ initializing <= 1
        /\ InitWaiters # {} => initializing = 1
        /\ bluetoothInitialized => initializing = 0)
  /\ [][/\ initializing' > initializing => initializing = 0 /\ ~bluetoothInitialized
        /\ bluetoothInitialized => bluetoothInitialized'
        /\ initializing' < initializing =>
             \/ bluetoothInitialized' /\ \A w \in InitWaiters : InitOutcomeOf(w) = "ok"
             \/ ~bluetoothInitialized' /\ \A w \in InitWaiters : InitOutcomeOf(w) = "fail"
        /\ initializing' >= initializing =>
             \A w \in InitWaiters : InitOutcomeOf(w) \in {"waiting", "pending"}]_vars

C15_Witness ==
  /\ initializing = 0
  /\ bluetoothInitialized
  /\ \A c \in OutsideCallers : outside[c] = "ok"
  /\ \E f \in ConnFrames : frame[f].pc = "init" /\ frame[f].initRes = "ok"

\* C12: disconnect() always resolves, also when plugin.disconnect or a
\* listener.remove() rejected during it, and by then the teardown is complete:
\* the listener map is empty, the reconnect cooldown has started and every
\* role in use got its disconnection callback.
C12_DisconnectAlwaysResolves ==
  \A f \in DiscFrames :
    Returned(frame[f]) =>
      /\ frame[f].res = "resolved"
      /\ frame[f].tornDown
      /\ notificationListeners = <<>>
      /\ cooldown = "running"
      /\ Len(frame[f].cb) = Len(inUseAs)
      /\ \A k \in 1..Len(inUseAs) :
           frame[f].cb[k][1] = "disconnected" /\ frame[f].cb[k][2] = inUseAs[k]

C12_Witness ==
  \E f \in DiscFrames :
    /\ Returned(frame[f]) /\ frame[f].res = "resolved"
    /\ frame[f].tdError /\ frame[f].didDisconnect /\ frame[f].didRemove
    /\ isConnected
    /\ Len(frame[f].cb) = 2

\* C16: when a teardown has completed and no call is pending, none of the
\* listeners the session added with plugin.addListener is still registered
\* with the platform.
C16_NoListenerLeftAfterTeardown ==
  (/\ \E f \in Frames : Returned(frame[f]) /\ frame[f].tornDown
   /\ \A f \in Frames : ~Active(frame[f]))
    => platformListeners = {}

\* C17: a disconnect() called right after a disconnect() has completed
\* returns without error and without a plugin.disconnect or listener.remove()
\* call, and a teardown calls listener.remove() only while the listener map
\* has an entry.
C17_SecondTeardownIssuesNoCalls ==
  [][\A d \in DiscFrames :
       /\ (Returned(frame[d]) /\ frame[d].tornDown /\ frame'[d] # IdleFrame)
            => /\ Returned(frame'[d]) /\ frame'[d].res = "resolved"
               /\ ~frame'[d].didDisconnect
               /\ ~frame'[d].didRemove
       /\ (frame'[d].pc = "tdRemove" /\ frame'[d] # frame[d])
            => notificationListeners # <<>>]_vars

\* C11: a connect() made by reconnect() calls plugin.connect only when the
\* cooldown started by the latest teardown has elapsed and no disconnect()
\* is tearing down.
C11_ReconnectWaitsForCooldown ==
  [][\A f \in ConnFrames :
       (frame'[f].viaReconnect /\ frame'[f].pc = "link" /\ frame[f].pc # "link")
         => /\ cooldown # "running"
            /\ \A d \in DiscFrames : ~Active(frame[d])]_vars

\* C13: a disconnect() calls stateOnDisconnected once for each role in use,
\* with the cause of a user-triggered disconnection, whatever isReconnect
\* and finalAttempt are.
C13_UserDisconnectCause ==
  \A d \in DiscFrames :
    Returned(frame[d]) =>
      frame[d].cb = [k \in 1..Len(inUseAs) |-> <<"disconnected", inUseAs[k], "false">>]

C13_Witness ==
  \E d \in DiscFrames :
    /\ Returned(frame[d])
    /\ isReconnect /\ ~finalAttempt
    /\ Len(inUseAs) = 2
    /\ Len(frame[d].cb) = 2

\* C14: all the start...() calls for one device identifier use one and the
\* same session, whether their connect() fails or the session was
\* disconnected in between: the registry entry of an identity, once set, is
\* never removed or replaced, and no session serves two identities.
C14_OneSessionPerIdentity ==
  /\ [](/\ \A d \in Devices :
             \A i \in 1..Len(acquired[d]) : acquired[d][i] = deviceIdToConnection[d]
        /\ \A d, e \in Devices :
             deviceIdToConnection[d] # 0 /\ deviceIdToConnection[d] = deviceIdToConnection[e]
               => d = e)
  /\ [][\A d \in Devices :
          deviceIdToConnection[d] # 0
            => deviceIdToConnection'[d] = deviceIdToConnection[d]]_vars

C14_Witness ==
  \E d \in Devices :
    /\ Len(acquired[d]) = 3
    /\ deviceIdToConnection[d] \notin sessionConnected
    /\ \E k \in FactoryCalls :
         /\ factoryCall[k].dev = d /\ factoryCall[k].session # 0
         /\ factoryCall[k].res = "undefined"

\* C18: once a scan result with exactly the name looked for has reached the
\* callback, whatever was collected before it, the discovery has returned
\* that device and the scan is stopped and the listeners removed: there is no
\* state in which it is collected and the call still waits, and nothing is
\* collected after it.
C18_ExactMatchStopsScan ==
  deviceName \in SeqToSet(scan.foundDevices) =>
    /\ scan.pc = "done"
    /\ scan.result = deviceName
    /\ ~scan.scanning /\ ~scan.listening
    /\ scan.stopCalls > 0 /\ scan.removeCalls > 0
    /\ scan.foundDevices[Len(scan.foundDevices)] = deviceName

C18_Witness ==
  /\ Len(scan.foundDevices) = 3
  /\ scan.foundDevices[3] = deviceName
  /\ scan.result = deviceName
  /\ scan.scanTimeout = "set"

\* C19: when the discovery has returned and matching results were collected,
\* it returned one of them.
C19_PartialMatchReturnedOnTimeout ==
  (scan.pc = "done" /\ scan.foundDevices # <<>>)
    => scan.result \in SeqToSet(scan.foundDevices)

\* C20: when the discovery has returned after startLEScan() resolved, it has
\* called stopLEScan() and removeAllListeners().
C20_ScanAlwaysStopped ==
  (scan.pc = "done" /\ scan.scanStarted)
    => scan.stopCalls > 0 /\ scan.removeCalls > 0

\* C21: the discovery, by scan or by picker, returns a device or undefined
\* and never throws; it returns undefined when the timeout fired with
\* nothing collected, when the picker was closed or failed, and when the
\* plugin or the browser interface is missing or refuses; and after a
\* discovery that returned undefined, startBluetoothConnection has returned
\* undefined with no session constructed and none registered.
C21_DiscoveryNeverThrows ==
  /\ scan.pc = "done" =>
       /\ scan.result = undefined \/ deviceIdOf(scan.result) \in Devices
       /\ (scan.foundDevices = <<>> /\ scan.deviceFound # Resolved(deviceName))
            => scan.result = undefined
  /\ (scan.pc = "done" /\ scan.result = undefined
        /\ factoryCall["s1"].pc # "discover")
       => /\ factoryCall["s1"] = [IdleCall EXCEPT !.res = "undefined"]
          /\ sessionsCreated = 0
          /\ \A d \in Devices : deviceIdToConnection[d] = 0

C21_Witness ==
  /\ scan.scanTimeout = "fired" /\ scan.scanStarted
  /\ scan.foundDevices = <<>>
  /\ scan.result = undefined
  /\ factoryCall["s1"].res = "undefined"

\* C22: at most one call of startBluetoothConnection is waiting for its
\* discovery at any time (a second call made meanwhile starts no second
\* scan or picker request).
C22_OneDiscoveryOutstanding ==
  Cardinality({k \in FactoryCalls : factoryCall[k].pc = "discover"}) <= 1

\* C23: a connect() called while a disconnect() of the session has not
\* returned, be it waiting for the low-level disconnect or removing the
\* listeners afterwards, is skipped: it returns at its guard and runs no step
\* of the connect sequence.
C23_ConnectDuringDisconnectIsNoOp ==
  [][\A f \in ConnFrames :
       ( /\ \E d \in DiscFrames : Active(frame[d]) /\ Active(frame'[d])
         /\ ~Active(frame[f])
         /\ frame'[f] # frame[f] /\ frame'[f] # IdleFrame )
       => frame'[f].res = "skipped"]_vars

\* the cause that the way a connect attempt was initiated calls for
CauseFor(fr) ==
  IF ~fr.viaReconnect THEN "connect"
  ELSE IF fr.finalAttempt THEN "false" ELSE "autoReconnect"

\* C24: every disconnection callback of a connect attempt that failed
\* carries the cause of the way the attempt was initiated: false (the final
\* attempt) from reconnect(true), 'autoReconnect' from reconnect(false),
\* 'connect' from a direct connect(), whatever was called before.
C24_CauseReflectsInitiation ==
  \A f \in ConnFrames :
    frame[f].tornDown =>
      \A k \in 1..Len(frame[f].cb) :
        frame[f].cb[k][1] = "disconnected" => frame[f].cb[k][3] = CauseFor(frame[f])

\* the connect() of frame f resolves in this step
ConnectResolves(f) ==
  Active(frame[f]) /\ ~Active(frame'[f]) /\ frame'[f].res = "resolved"

\* C25: a connect() that resolves leaves in use the roles that were in use
\* together with the roles it was called with; nothing else changes the
\* roles in use, a connect() that fails or is skipped in particular; and the
\* connect() that reconnect() makes, at once or after the cooldown, is called
\* with the roles that were in use when reconnect() was called.
C25_RolesAreAdditive ==
  [][ /\ \A f \in ConnFrames :
           ConnectResolves(f) =>
             SeqToSet(inUseAs') = SeqToSet(inUseAs) \cup SeqToSet(frame[f].states)
      /\ inUseAs' # inUseAs => \E f \in ConnFrames : ConnectResolves(f)
      /\ \A r \in ReconFrames :
           /\ (~Active(frame[r]) /\ Active(frame'[r])) => frame'[r].states = inUseAs
           /\ \A f \in ConnFrames :
                ( /\ ~Active(frame[f]) /\ frame'[f] # frame[f]
                  /\ frame'[f] # IdleFrame /\ frame'[f].viaReconnect )
                => frame'[f].states = IF Active(frame[r]) THEN frame[r].states
                                                          ELSE inUseAs ]_vars

C25_Witness ==
  /\ inUseAs = <<INPUT, OUTPUT>>
  /\ frame["c1"].res = "resolved" /\ frame["c1"].states = <<OUTPUT>>
  /\ budget.calls = MaxCallsReconnect - 2

\* C26: when the connected-devices query lists the device, and when
\* plugin.connect fails because the device is already connected, connect()
\* goes on as after a plugin.connect that succeeded (to the settle delay and
\* the read of the model number): no retry, no unwinding, no teardown.
C26_AlreadyConnectedIsSuccess ==
  [][\A f \in ConnFrames :
       /\ (frame'[f].isAlreadyConnected /\ ~frame[f].isAlreadyConnected)
            => frame'[f].pc = "model"
       /\ (frame'[f].alreadyConnectedError /\ ~frame[f].alreadyConnectedError)
            => frame'[f].pc \in {"linked", "model"}]_vars

\* C30: a connect() call invokes plugin.connect at most 3 times and reads
\* the model number at most twice; and once the third plugin.connect has
\* failed the call is unwinding or has rejected: it is in no further
\* attempt, cleanup or later step of the connect sequence.
C30_AttemptsAreBounded ==
  \A f \in ConnFrames :
    /\ frame[f].linkCalls <= 3
    /\ frame[f].modelReads <= 2
    /\ (frame[f].linkCalls = 3 /\ ~frame[f].linked /\ frame[f].pc # "link")
         => \/ frame[f].pc \in {"tdDisconnect", "tdRemove"}
            \/ ~Active(frame[f]) /\ frame[f].res = "rejected"

C30_Witness ==
  /\ frame["c1"].linkCalls = 3 /\ ~frame["c1"].linked
  /\ frame["c1"].res = "rejected" /\ frame["c1"].tornDown

\* the bytes a listener needs to make its callback
Needs(handler) == IF handler = "accelerometer" THEN 6 ELSE 1

\* C27: a listener invoked with a payload that is missing, empty or
\* shorter than what it reads returns without throwing and dispatches no
\* callback.
C27_ShortPayloadIsDropped ==
  (handled.done /\ Len(valueToDataView(event.value)) < Needs(event.handler))
    => ~handled.threw /\ handled.dispatched = <<>>

\* bit b (0 the lowest) of byte n
Bit(n, b) ==
  LET pow == IF b = 0 THEN 1 ELSE IF b = 1 THEN 2 ELSE IF b = 2 THEN 4
             ELSE IF b = 3 THEN 8 ELSE 16
  IN (n \div pow) % 2 = 1

\* the grid that five row bitmasks stand for
DecodeRows(bytes) ==
  [k \in 1..25 |-> Bit(bytes[((k - 1) \div 5) + 1], 4 - ((k - 1) % 5))]

\* C28: setLeds writes 5 bytes, each below 32, in which bit 4 down to bit 0
\* of byte i are columns 1 to 5 of row i of the grid, so that decoding the
\* five row bitmasks gives the grid back.
C28_LedEncodingIsLossless ==
  written # <<>> =>
    /\ Len(written) = 5
    /\ \A i \in 1..5 : written[i] \in 0..31
    /\ \A i \in 1..5, c \in 1..5 : Bit(written[i], 5 - c) = matrix[(i - 1) * 5 + c]
    /\ DecodeRows(written) = matrix

C28_Witness ==
  /\ matrix = [k \in 1..25 |-> k \in {1, 25}]
  /\ written = <<16, 0, 0, 0, 1>>

\* C29: on every host the bridge transport is chosen exactly when the
\* native bridge is present and the host runs iOS or has no browser BLE;
\* otherwise browser-native BLE is chosen.
C29_BridgePreferredOnlyWithBridge ==
  useCapacitor # "unset" =>
    ( useCapacitor = "Capacitor"
        <=> (host.capacitor /\ (host.os = "ios" \/ ~host.bluetooth)) )

\* the event keys whose listeners make up the notification set of a role
RoleKeys(role) ==
  IF role = INPUT THEN {KeyAccel, KeyButtonA, KeyButtonB, KeyUart} ELSE {KeyUart}

\* C31: a connect() that has reported 'ready' for a role has a listener stored
\* for every event key of that role: a subscription of the role that could
\* not be set up makes the connect fail instead.
C31_ReadyOnlyWhenFullySubscribed ==
  \A f \in ConnFrames :
    \A k \in 1..Len(frame[f].cb) :
      frame[f].cb[k][1] = "ready"
        => RoleKeys(frame[f].cb[k][2]) \subseteq SeqToSet(notificationListeners)

\* C32: when disconnect() has resolved the connected flag of the session is
\* false, also when plugin.disconnect threw.
C32_DisconnectedAfterDisconnect ==
  \A d \in DiscFrames :
    (Returned(frame[d]) /\ frame[d].res = "resolved") => ~isConnected


\* C33: while the output handles are unavailable the queue is empty and not
\* busy (every processing that found them missing reset it), and no action
\* discarded by such a reset is started or executing, also not after a later
\* connect resolved the handles.
C33_DiscardedNeverExecuted ==
  /\ ~outputCharacteristics => outputWriteQueue = [busy |-> FALSE, queue |-> <<>>]
  /\ dropped \cap SeqToSet(started) = {}
  /\ \A a \in executing : a.id \notin dropped

C33_Witness ==
  /\ dropped # {}
  /\ outputCharacteristics
  /\ started # <<>>


\* C34: a failed initialization that did not report 'already initialized'
\* is not remembered: while the plugin is not initialized and no attempt is
\* in flight, the next call of initializeBluetoothLEOnce starts a new
\* attempt; a caller is told of success only with the plugin initialized,
\* which a failure reporting 'already initialized' counts as.
C34_FailedInitIsRetried ==
  /\ (~bluetoothInitialized /\ initializing = 0)
       => initializeOnceDoes(bluetoothInitialized,
                             bluetoothInitializationPromise) = "start"
  /\ bluetoothInitializationPromise = "settled" => bluetoothInitialized
  /\ \A c \in OutsideCallers : outside[c] = "ok" => bluetoothInitialized


\* C35: when a connect() has rejected, the low-level link that this call
\* established is closed again: no link is left open behind a failed connect.
C35_RejectedConnectLeavesNoLink ==
  \A f \in ConnFrames :
    (Returned(frame[f]) /\ frame[f].res = "rejected" /\ frame[f].linked)
      => ~link


\* C36: when a connect() has settled, each 'connected' callback it emitted
\* for a role is followed by 'ready' for that role if it resolved and by
\* 'disconnected' for that role if it rejected.
C36_ConnectedIsFollowedUp ==
  \A f \in ConnFrames :
    Returned(frame[f]) =>
      LET cb == frame[f].cb
          closing == IF frame[f].res = "resolved" THEN "ready" ELSE "disconnected"
      IN \A k \in 1..Len(cb) :
           cb[k][1] = "connected" =>
             \E j \in (k + 1)..Len(cb) :
               cb[j][1] = closing /\ cb[j][2] = cb[k][2]


\* C37: 'ready' is only reported while the session's connected flag is
\* true: a disconnect() that ran while the connect() was in flight keeps
\* that connect from reporting 'ready'.
C37_ReadyOnlyWhileConnected ==
  \A f \in ConnFrames :
    (\E k \in 1..Len(frame[f].cb) : frame[f].cb[k][1] = "ready") => isConnected


\* connect() calls past the reentrancy test, and teardowns awaiting
\* bluetoothPlugin.disconnect
HoldingCounter ==
  Cardinality({f \in ConnFrames : Active(frame[f])})
    + Cardinality({f \in Frames : frame[f].pc = "tdDisconnect"})

\* C38: the reentrancy counter is never negative, counts exactly the
\* connect() calls past the guard and the teardowns awaiting the platform
\* disconnect, and so is 0 whenever no connect or disconnect is in progress,
\* whichever way the earlier calls ended.
C38_CounterIsBalanced ==
  /\ duringExplicitConnectDisconnect >= 0
  /\ duringExplicitConnectDisconnect = HoldingCounter
  /\ (\A f \in Frames : ~Active(frame[f])) => duringExplicitConnectDisconnect = 0

C38_Witness ==
  /\ \A f \in Frames : ~Active(frame[f])
  /\ \E f \in ConnFrames : Returned(frame[f]) /\ frame[f].res = "rejected"
  /\ duringExplicitConnectDisconnect = 0


\* a session that reported 'ready' and has no call in progress
SessionReady ==
  /\ \A f \in Frames : ~Active(frame[f])
  /\ isConnected
  /\ inUseAs # <<>>

\* C39: no step of a discovery scan changes the notification listeners that
\* are registered on the plugin for a ready session.
C39_ScanKeepsSessionListeners ==
  [][(SessionReady /\ scan' # scan) => platformListeners' = platformListeners]_vars


====
